---- MODULE Spec2Model ----
(***************************************************************************)
(* A model of the tis-cli runtime: the grid of nodes (TIS), the port       *)
(* protocol shared by all node kinds, the instruction interpreter of the   *)
(* compute node and the console nodes.  One global tick is three passes    *)
(* over the node map (tick, handle_give, post_handle_give with the re-tick *)
(* of the partner and post_post_handle_give); the map is a HashMap, so     *)
(* every pass visits the nodes in an arbitrary order.                      *)
(***************************************************************************)
EXTENDS Integers, Sequences, FiniteSets, TLC

\* ------------------------------------------------------------------ bounds
\* Number of global ticks a behaviour runs through.
MaxTicks == 7

\* -------------------------------------------------------- program constants
NumberMin == -999
NumberMax == 999
ByteLimit == 256
I32Max == 2147483647
I32Min == (-2147483647) - 1

\* ---------------------------------------------------------------- Direction
\* enum Direction { Up, Left, Right, Down } in declaration order, which is
\* both the derived Ord and the order of all::<Direction>().
AllDirections == <<"Up", "Left", "Right", "Down">>

Direction == {"Up", "Left", "Right", "Down"}

DirectionOrd(d) == CHOOSE i \in 1..4 : AllDirections[i] = d

opposite(d) ==
    CASE d = "Up" -> "Down"
      [] d = "Left" -> "Right"
      [] d = "Right" -> "Left"
      [] d = "Down" -> "Up"

\* A tie-break that keeps the reader that registered last.
DirectionLatest(a, b) == b

\* Ord::min on two directions.
DirectionMin(a, b) == IF DirectionOrd(a) <= DirectionOrd(b) THEN a ELSE b

\* ----------------------------------------------------------------- Position
\* i32 addition: the reachable outcomes of an overflowing +1 / -1 are a panic
\* (overflow checks on) or two's-complement wrap-around (checks off).
Overflows(c, delta) == (delta = 1 /\ c = I32Max) \/ (delta = -1 /\ c = I32Min)

WrappingAdd(c, delta) ==
    IF delta = 1 /\ c = I32Max THEN I32Min
    ELSE IF delta = -1 /\ c = I32Min THEN I32Max
    ELSE c + delta

\* A grid whose y axis points the other way: Up decreases y.
in_direction_swapped(pos, d) ==
    CASE d = "Up" -> <<pos[1], WrappingAdd(pos[2], -1)>>
      [] d = "Down" -> <<pos[1], WrappingAdd(pos[2], 1)>>
      [] d = "Left" -> <<WrappingAdd(pos[1], -1), pos[2]>>
      [] d = "Right" -> <<WrappingAdd(pos[1], 1), pos[2]>>

in_direction(pos, d) ==
    CASE d = "Up" -> <<pos[1], WrappingAdd(pos[2], 1)>>
      [] d = "Down" -> <<pos[1], WrappingAdd(pos[2], -1)>>
      [] d = "Left" -> <<WrappingAdd(pos[1], -1), pos[2]>>
      [] d = "Right" -> <<WrappingAdd(pos[1], 1), pos[2]>>

in_direction_overflows(pos, d) ==
    CASE d = "Up" -> Overflows(pos[2], 1)
      [] d = "Down" -> Overflows(pos[2], -1)
      [] d = "Left" -> Overflows(pos[1], -1)
      [] d = "Right" -> Overflows(pos[1], 1)

\* ------------------------------------------------------------------- Number
Clamp(n) == IF n < NumberMin THEN NumberMin ELSE IF n > NumberMax THEN NumberMax ELSE n

\* The value an i16 operation leaves when overflow is not checked, and whether
\* the mathematical result is outside i16 (a panic when overflow is checked).
I16(n) == LET m == n % 65536 IN IF m >= 32768 THEN m - 65536 ELSE m

I16Overflows(n) == n < -32768 \/ n > 32767

\* Number::set_value
Number_set_value(value) == Clamp(value)

\* impl From<i8> for Number, impl From<u8> for Number: number as i16
From_i8(number) == number

From_u8(number) == number

\* impl_from_signed!(i16, i32, i64, i128, isize): number.clamp(-999, 999) as i16
NumberFrom(n) == Clamp(n)

\* An unsigned conversion that casts without taking the minimum first.
From_unsigned_truncating(number) == I16(number)

\* impl_from_unsigned!(u16, u32, u64, u128, usize): number.min(999) as i16
From_unsigned(number) == IF number < NumberMax THEN number ELSE NumberMax

\* Number + Number
NumberAdd(a, b) == NumberFrom(I16(a + b))

\* Number - Number
NumberSub(a, b) == NumberFrom(I16(a - b))

\* -Number
NumberNeg(a) == NumberFrom(I16(0 - a))

\* A += that stores the i16 sum as it is.
NumberAddAssign_unclamped(a, b) == I16(a + b)

\* Number += Number
NumberAddAssign(a, b) == Number_set_value(I16(a + b))

\* Number -= Number
NumberSubAssign(a, b) == Number_set_value(I16(a - b))

\* ----------------------------------------------------- Register, Instruction
\* A Register is "Accumulator", "Nil", "Any", "Last", or the name of a
\* direction for Register::Direction(d).
Register == {"Accumulator", "Nil", "Any", "Last"} \cup Direction

\* RegisterOrNumber
Reg(r) == [isReg |-> TRUE, reg |-> r, num |-> 0]

Num(n) == [isReg |-> FALSE, reg |-> "Nil", num |-> n]

NoOperand == Num(0)

Noop == [op |-> "Noop", src |-> NoOperand, dst |-> "Nil", label |-> ""]

Move(s, d) == [op |-> "Move", src |-> s, dst |-> d, label |-> ""]

Swap == [op |-> "Swap", src |-> NoOperand, dst |-> "Nil", label |-> ""]

Save == [op |-> "Save", src |-> NoOperand, dst |-> "Nil", label |-> ""]

Add(s) == [op |-> "Add", src |-> s, dst |-> "Nil", label |-> ""]

Subtract(s) == [op |-> "Subtract", src |-> s, dst |-> "Nil", label |-> ""]

Negate == [op |-> "Negate", src |-> NoOperand, dst |-> "Nil", label |-> ""]

Jump(l) == [op |-> "Jump", src |-> NoOperand, dst |-> "Nil", label |-> l]

JumpEqualZero(l) == [op |-> "JumpEqualZero", src |-> NoOperand, dst |-> "Nil", label |-> l]

JumpNotZero(l) == [op |-> "JumpNotZero", src |-> NoOperand, dst |-> "Nil", label |-> l]

JumpGreaterThanZero(l) ==
    [op |-> "JumpGreaterThanZero", src |-> NoOperand, dst |-> "Nil", label |-> l]

JumpLessThanZero(l) ==
    [op |-> "JumpLessThanZero", src |-> NoOperand, dst |-> "Nil", label |-> l]

JumpRelative(s) == [op |-> "JumpRelative", src |-> s, dst |-> "Nil", label |-> ""]

JumpOps == {"Jump", "JumpEqualZero", "JumpNotZero", "JumpGreaterThanZero", "JumpLessThanZero"}

\* --------------------------------------------------------------------- Node
\* Option<T> is a sequence of length at most one, except Option<Direction>,
\* which is a direction name or "None".
None == <<>>

Some(v) == <<v>>

\* The label table of a node: a set of <<name, index>> pairs (HashMap<String, usize>).
LabelGet(labels, name) ==
    IF \E e \in labels : e[1] = name
    THEN Some((CHOOSE e \in labels : e[1] = name)[2])
    ELSE None

Kinds == {"InstructionNode", "ConsoleOutNode", "ConsoleInNode",
          "NumberConsoleOutNode", "NumberConsoleInNode"}

InputKinds == {"ConsoleInNode", "NumberConsoleInNode"}

OutputKinds == {"ConsoleOutNode", "NumberConsoleOutNode"}

NoSlots == [d \in Direction |-> None]

\* InstructionNode::new(...).with_accumulator(acc).with_backup(bak)
InstructionNode(pos, labels, instructions, acc, bak) ==
    [kind |-> "InstructionNode", position |-> pos, slot |-> NoSlots,
     labels |-> labels, instructions |-> instructions, ptr |-> 0,
     accumulator |-> NumberFrom(acc), backup |-> NumberFrom(bak), last |-> "None",
     give |-> "None", give_value |-> None, giving_to |-> "None",
     text_buffer |-> None]

\* ConsoleOutNode::new / NumberConsoleOutNode::new: only the position and the
\* four links; give() is the constant None, giving_to() the constant None.
OutNode(kind, pos) ==
    [kind |-> kind, position |-> pos, slot |-> NoSlots,
     labels |-> {}, instructions |-> <<>>, ptr |-> 0,
     accumulator |-> 0, backup |-> 0, last |-> "None",
     give |-> "None", give_value |-> None, giving_to |-> "None",
     text_buffer |-> None]

\* ConsoleInNode::new / NumberConsoleInNode::new: give starts as Any.
InNode(kind, pos) ==
    [kind |-> kind, position |-> pos, slot |-> NoSlots,
     labels |-> {}, instructions |-> <<>>, ptr |-> 0,
     accumulator |-> 0, backup |-> 0, last |-> "None",
     give |-> "Any", give_value |-> None, giving_to |-> "None",
     text_buffer |-> None]

\* -------------------------------------------------------------------- world
\* What the handlers read and write: the node map of TIS, standard input (the
\* lines still to be read, each a sequence of code points), standard output,
\* the reason of a fatal stop ("" while running), and the log of the port
\* calls made during the current global tick.
Fail(w, why) == IF w.fatal = "" THEN [w EXCEPT !.fatal = why] ELSE w

Logged(w, ev, q, d, v) ==
    [w EXCEPT !.log = @ \cup {[ev |-> ev, at |-> q, dir |-> d, val |-> v]}]

\* The value v, if any, is added to the record of the values taken from q.
Noted(w, q, v) == IF v = <<>> THEN w ELSE [w EXCEPT !.taken = Append(@, <<q, v[1]>>)]

\* ------------------------------------------------------------ Number parsing
Digits == 48..57

Minus == 45

Whitespace == {9, 10, 11, 12, 13, 32}

RECURSIVE TrimStart(_)
TrimStart(s) == IF s # <<>> /\ Head(s) \in Whitespace THEN TrimStart(Tail(s)) ELSE s

RECURSIVE TrimEnd(_)
TrimEnd(s) ==
    IF s # <<>> /\ s[Len(s)] \in Whitespace THEN TrimEnd(SubSeq(s, 1, Len(s) - 1)) ELSE s

\* str::trim
Trim(s) == TrimEnd(TrimStart(s))

Min(a, b) == IF a <= b THEN a ELSE b

Max(a, b) == IF a >= b THEN a ELSE b

RECURSIVE ParseDigits(_, _)
ParseDigits(s, value) ==
    IF s = <<>> THEN Some(value)
    ELSE IF Head(s) \in Digits
         THEN ParseDigits(Tail(s), Min(I16(I16(value * 10) + (Head(s) - 48)), NumberMax))
         ELSE None

\* <Number as FromStr>::from_str: None is Err, Some(v) is Ok(Number(v)).
from_str(s) ==
    IF s = <<>> THEN None
    ELSE LET is_negative == Head(s) = Minus
             r == ParseDigits(IF is_negative THEN Tail(s) ELSE s, 0)
         IN  IF r = None THEN None
             ELSE Some(NumberFrom(IF is_negative THEN I16(0 - r[1]) ELSE r[1]))

\* --------------------------------------------------------- the port contract
\* Node::give
give(n) == IF n.kind \in OutputKinds THEN "None" ELSE n.give

\* Node::giving_to
giving_to(n) == IF n.kind \in OutputKinds THEN "None" ELSE n.giving_to

\* Node::set_giving_to, called on the node at q
set_giving_to(w, q, d) ==
    LET w1 == Logged(w, "set_giving_to", q, d, 0)
    IN  IF w.nodes[q].kind \in OutputKinds THEN w1
        ELSE [w1 EXCEPT !.nodes[q].giving_to = d]

Reverse(s) == [i \in 1..Len(s) |-> s[Len(s) + 1 - i]]

\* char as u8 as i16, then Number::from
CharToNumber(c) == NumberFrom(c % ByteLimit)

\* The chars of a line of bytes, as read_line decodes them: UTF-8 sequences of
\* one, two or three bytes; None when the bytes are not valid UTF-8.
RECURSIVE from_utf8(_)
from_utf8(b) ==
    IF b = <<>> THEN Some(<<>>)
    ELSE LET n == IF b[1] < 128 THEN 1
                  ELSE IF b[1] \in 194..223 THEN 2
                  ELSE IF b[1] \in 224..239 THEN 3 ELSE 0
         IN  IF n = 0 \/ Len(b) < n \/ (\E i \in 2..n : b[i] \notin 128..191) THEN None
             ELSE LET c == CASE n = 1 -> b[1]
                             [] n = 2 -> (b[1] - 192) * 64 + (b[2] - 128)
                             [] n = 3 -> (b[1] - 224) * 4096 + (b[2] - 128) * 64 + (b[3] - 128)
                      rest == from_utf8(SubSeq(b, n + 1, Len(b)))
                  IN  IF rest = None THEN None ELSE Some(<<c>> \o rest[1])

InvalidUtf8 == "read_line().unwrap(): the input is not valid UTF-8"

\* stdin().read_line(&mut input): the chars of the next line of input, None
\* when its bytes are not valid UTF-8.
read_line(w) == IF w.stdin = <<>> THEN None ELSE from_utf8(Head(w.stdin))

\* The body of ConsoleInNode::give_value, `line` being what read_line gives
\* if the buffer has to be refilled.
ConsoleInNode_pop(w, q, line) ==
    LET n == w.nodes[q]
        atEof == n.text_buffer = None /\ w.stdin = <<>>
        buf == IF n.text_buffer = None THEN Reverse(line[1]) ELSE n.text_buffer[1]
        rest == SubSeq(buf, 1, Len(buf) - 1)
    IN  IF atEof THEN Fail(w, "ConsoleInNode::give_value: pop().unwrap() on an empty line")
        ELSE IF n.text_buffer = None /\ line = None THEN Fail(w, InvalidUtf8)
        ELSE [w EXCEPT !.stdin = IF n.text_buffer = None THEN Tail(@) ELSE @,
                       !.nodes[q].give_value = Some(CharToNumber(buf[Len(buf)])),
                       !.nodes[q].text_buffer = IF rest = <<>> THEN None ELSE Some(rest)]

\* ConsoleInNode::give_value: refill the buffer from one input line when it is
\* empty, then publish the next char of the line.
ConsoleInNode_give_value(w, q) == ConsoleInNode_pop(w, q, read_line(w))

RECURSIVE NumberConsoleInNode_give_value(_, _)
\* One round of the loop of NumberConsoleInNode::give_value on the line read.
NumberConsoleInNode_parse(w, q, line) ==
    IF line = None THEN Fail(w, InvalidUtf8)
    ELSE LET r == from_str(Trim(line[1]))
             w1 == [w EXCEPT !.stdin = Tail(@)]
         IN  IF r # None THEN [w1 EXCEPT !.nodes[q].give_value = r]
             ELSE NumberConsoleInNode_give_value(
                      [w1 EXCEPT !.out = Append(@, [kind |-> "msg", v |-> 0])], q)

\* NumberConsoleInNode::give_value: read lines until one parses.
NumberConsoleInNode_give_value(w, q) ==
    IF w.stdin = <<>>
    THEN Fail(w, "NumberConsoleInNode::give_value: end of input, the read loop never ends")
    ELSE NumberConsoleInNode_parse(w, q, read_line(w))

\* Node::give_value, by node kind
give_value(w, q) ==
    LET k == w.nodes[q].kind
    IN  CASE k = "InstructionNode" -> w
          [] k = "ConsoleInNode" -> ConsoleInNode_give_value(w, q)
          [] k = "NumberConsoleInNode" -> NumberConsoleInNode_give_value(w, q)
          [] OTHER -> Fail(w, "give_value: unreachable, an output node does not give values")

\* A read of the slot that leaves the value in it.
take_keeping(w, q, by) ==
    LET w1 == give_value(w, q)
        v == w1.nodes[q].give_value
    IN  IF w1.fatal # "" THEN [w |-> w1, val |-> None]
        ELSE [w |-> Noted(Logged(w1, "take", q, by, IF v = None THEN 0 ELSE v[1]), q, v),
              val |-> v]

\* node.give_value().take(), by the reader in direction `by` as seen from q
take(w, q, by) ==
    LET w1 == give_value(w, q)
        v == w1.nodes[q].give_value
    IN  IF w1.fatal # "" THEN [w |-> w1, val |-> None]
        ELSE [w |-> Noted(Logged([w1 EXCEPT !.nodes[q].give_value = None], "take", q, by,
                                 IF v = None THEN 0 ELSE v[1]), q, v),
              val |-> v]

\* ------------------------------------------------------------ InstructionNode
Slot(w, p, d) == w.nodes[p].slot[d]

\* A reader that registers with Any offers only and passes by a neighbour
\* that offers in its direction.
read_direction_ignores_directed(w, p, d) ==
    IF Slot(w, p, d) = None THEN [w |-> w, val |-> None]
    ELSE LET q == Slot(w, p, d)[1]
             n == w.nodes[q]
             g == give(n)
         IN  CASE g = "None" -> [w |-> w, val |-> None]
               [] g = "Any" ->
                    [w |-> set_giving_to(w, q,
                               IF giving_to(n) = "None" THEN opposite(d)
                               ELSE DirectionMin(giving_to(n), opposite(d))),
                     val |-> None]
               [] g \in Direction -> [w |-> w, val |-> None]
               [] g = "Given" -> take(w, q, opposite(d))

\* A reader that also registers with a neighbour that offers nothing.
read_direction_registers_with_idle(w, p, d) ==
    IF Slot(w, p, d) = None THEN [w |-> w, val |-> None]
    ELSE LET q == Slot(w, p, d)[1]
             n == w.nodes[q]
             g == give(n)
         IN  CASE g \in {"None", "Any"} ->
                    [w |-> set_giving_to(w, q,
                               IF giving_to(n) = "None" THEN opposite(d)
                               ELSE DirectionMin(giving_to(n), opposite(d))),
                     val |-> None]
               [] g \in Direction ->
                    [w |-> IF g = opposite(d) THEN set_giving_to(w, q, opposite(d)) ELSE w,
                     val |-> None]
               [] g = "Given" -> take(w, q, opposite(d))

\* The match on the neighbour's give() inside get_value, Register::Direction arm.
read_direction(w, p, d) ==
    IF Slot(w, p, d) = None THEN [w |-> w, val |-> None]
    ELSE LET q == Slot(w, p, d)[1]
             n == w.nodes[q]
             g == give(n)
         IN  CASE g = "None" -> [w |-> w, val |-> None]
               [] g = "Any" ->
                    [w |-> set_giving_to(w, q,
                               IF giving_to(n) = "None" THEN opposite(d)
                               ELSE DirectionMin(giving_to(n), opposite(d))),
                     val |-> None]
               [] g \in Direction ->
                    [w |-> IF g = opposite(d) THEN set_giving_to(w, q, opposite(d)) ELSE w,
                     val |-> None]
               [] g = "Given" -> take(w, q, opposite(d))

\* A read from Any that goes on to the next neighbour after registering.
RECURSIVE read_any_registers_with_all(_, _, _)
read_any_registers_with_all(w, p, i) ==
    IF i > Len(AllDirections) THEN [w |-> w, val |-> None]
    ELSE LET d == AllDirections[i]
         IN  IF Slot(w, p, d) = None THEN read_any_registers_with_all(w, p, i + 1)
             ELSE LET q == Slot(w, p, d)[1]
                      n == w.nodes[q]
                      g == give(n)
                  IN  CASE g = "None" -> read_any_registers_with_all(w, p, i + 1)
                        [] g = "Any" ->
                             read_any_registers_with_all(
                                 set_giving_to(w, q,
                                     IF giving_to(n) = "None" THEN opposite(d)
                                     ELSE DirectionMin(giving_to(n), opposite(d))),
                                 p, i + 1)
                        [] g \in Direction ->
                             IF g = opposite(d)
                             THEN read_any_registers_with_all(
                                      set_giving_to(w, q, opposite(d)), p, i + 1)
                             ELSE read_any_registers_with_all(w, p, i + 1)
                        [] g = "Given" -> take(w, q, opposite(d))

\* get_value, Register::Any arm: the loop over all::<Direction>() from the
\* i-th direction on; it returns at the first neighbour that offers.
RECURSIVE read_any(_, _, _)
read_any(w, p, i) ==
    IF i > Len(AllDirections) THEN [w |-> w, val |-> None]
    ELSE LET d == AllDirections[i]
         IN  IF Slot(w, p, d) = None THEN read_any(w, p, i + 1)
             ELSE LET q == Slot(w, p, d)[1]
                      n == w.nodes[q]
                      g == give(n)
                  IN  CASE g = "None" -> read_any(w, p, i + 1)
                        [] g = "Any" ->
                             [w |-> set_giving_to(w, q,
                                        IF giving_to(n) = "None" THEN opposite(d)
                                        ELSE DirectionMin(giving_to(n), opposite(d))),
                              val |-> None]
                        [] g \in Direction ->
                             IF g = opposite(d)
                             THEN [w |-> set_giving_to(w, q, opposite(d)), val |-> None]
                             ELSE read_any(w, p, i + 1)
                        [] g = "Given" -> take(w, q, opposite(d))

\* A get_value that reads from Any when the node has no last direction yet.
get_value_last_reads_any(w, p, register) ==
    CASE register = "Accumulator" -> [w |-> w, val |-> Some(w.nodes[p].accumulator)]
      [] register = "Nil" -> [w |-> w, val |-> Some(0)]
      [] register \in Direction -> read_direction(w, p, register)
      [] register = "Any" -> read_any(w, p, 1)
      [] register = "Last" ->
           IF w.nodes[p].last = "None" THEN read_any(w, p, 1)
           ELSE read_direction(w, p, w.nodes[p].last)

\* InstructionNode::get_value
get_value(w, p, register) ==
    CASE register = "Accumulator" -> [w |-> w, val |-> Some(w.nodes[p].accumulator)]
      [] register = "Nil" -> [w |-> w, val |-> Some(0)]
      [] register \in Direction -> read_direction(w, p, register)
      [] register = "Any" -> read_any(w, p, 1)
      [] register = "Last" ->
           IF w.nodes[p].last = "None" THEN [w |-> w, val |-> Some(0)]
           ELSE read_direction(w, p, w.nodes[p].last)

\* A set_value that stages a write through Last whether or not last is set.
set_value_last_unchecked(w, p, register, value) ==
    CASE register = "Accumulator" ->
           [w |-> [w EXCEPT !.nodes[p].accumulator = value], skip |-> FALSE]
      [] register = "Nil" -> [w |-> w, skip |-> FALSE]
      [] register \in Direction \cup {"Any", "Last"} ->
           [w |-> [w EXCEPT !.nodes[p].give_value = Some(value)], skip |-> TRUE]

\* A set_value that opens the port as soon as the value is staged.
set_value_offers_at_once(w, p, register, value) ==
    CASE register = "Accumulator" ->
           [w |-> [w EXCEPT !.nodes[p].accumulator = value], skip |-> FALSE]
      [] register = "Nil" -> [w |-> w, skip |-> FALSE]
      [] register \in Direction \cup {"Any"} ->
           [w |-> [w EXCEPT !.nodes[p].give_value = Some(value), !.nodes[p].give = register],
            skip |-> TRUE]
      [] register = "Last" ->
           IF w.nodes[p].last # "None"
           THEN [w |-> [w EXCEPT !.nodes[p].give_value = Some(value),
                                 !.nodes[p].give = w.nodes[p].last],
                 skip |-> TRUE]
           ELSE [w |-> w, skip |-> FALSE]

\* A set_value that treats Nil like the accumulator.
set_value_nil_as_acc(w, p, register, value) ==
    CASE register \in {"Accumulator", "Nil"} ->
           [w |-> [w EXCEPT !.nodes[p].accumulator = value], skip |-> FALSE]
      [] register \in Direction \cup {"Any"} ->
           [w |-> [w EXCEPT !.nodes[p].give_value = Some(value)], skip |-> TRUE]
      [] register = "Last" ->
           IF w.nodes[p].last # "None"
           THEN [w |-> [w EXCEPT !.nodes[p].give_value = Some(value)], skip |-> TRUE]
           ELSE [w |-> w, skip |-> FALSE]

\* InstructionNode::set_value; skip is the returned bool.
set_value(w, p, register, value) ==
    CASE register = "Accumulator" ->
           [w |-> [w EXCEPT !.nodes[p].accumulator = value], skip |-> FALSE]
      [] register = "Nil" -> [w |-> w, skip |-> FALSE]
      [] register \in Direction \cup {"Any"} ->
           [w |-> [w EXCEPT !.nodes[p].give_value = Some(value)], skip |-> TRUE]
      [] register = "Last" ->
           IF w.nodes[p].last # "None"
           THEN [w |-> [w EXCEPT !.nodes[p].give_value = Some(value)], skip |-> TRUE]
           ELSE [w |-> w, skip |-> FALSE]

\* An operand whose blocked read moves the reader on to the next instruction.
Operand_advances_when_blocked(w, p, source) ==
    IF source.isReg
    THEN LET r == get_value(w, p, source.reg)
         IN  IF r.val = None THEN [w |-> [r.w EXCEPT !.nodes[p].ptr = @ + 1], val |-> None]
             ELSE r
    ELSE [w |-> w, val |-> Some(source.num)]

\* The source operand of Move, Add, Subtract and JumpRelative.
Operand(w, p, source) ==
    IF source.isReg THEN get_value(w, p, source.reg)
    ELSE [w |-> w, val |-> Some(source.num)]

\* The final `if !skip_ptr_incr { self.ptr += 1 }`.
Advance(w, p, skip_ptr_incr) ==
    IF skip_ptr_incr THEN w ELSE [w EXCEPT !.nodes[p].ptr = @ + 1]

\* A relative jump that is not kept from going below the first instruction.
jro_target_unclamped(ptr, offset) == ptr + offset

\* The ptr a relative jump leaves: (ptr as i32 + offset).max(0).
jro_target(ptr, offset) == Max(ptr + offset, 0)

\* The body of a conditional or unconditional jump whose condition holds.
JumpTo(w, p, label) ==
    LET t == LabelGet(w.nodes[p].labels, label)
    IN  IF t = None THEN Fail(w, "InstructionNode::tick: label not found")
        ELSE [w EXCEPT !.nodes[p].ptr = t[1]]

JumpTaken(n, op) ==
    CASE op = "Jump" -> TRUE
      [] op = "JumpEqualZero" -> n.accumulator = 0
      [] op = "JumpNotZero" -> n.accumulator # 0
      [] op = "JumpGreaterThanZero" -> n.accumulator > 0
      [] op = "JumpLessThanZero" -> n.accumulator < 0

\* A swap done as two assignments, one after the other.
swp_in_sequence(n) == [n EXCEPT !.accumulator = n.backup, !.backup = n.backup]

\* Instruction::Swap: (accumulator, backup) = (backup, accumulator)
swp(n) == [n EXCEPT !.accumulator = n.backup, !.backup = n.accumulator]

\* A save that moves the accumulator to backup and leaves zero behind.
sav_moving(n) == [n EXCEPT !.backup = n.accumulator, !.accumulator = 0]

\* Instruction::Save: backup = accumulator
sav(n) == [n EXCEPT !.backup = n.accumulator]

\* The match on the instruction inside InstructionNode::tick, after the
\* pointer has been wrapped.
Execute(w, p, ins) ==
    LET n == w.nodes[p]
        r == Operand(w, p, ins.src)
    IN  CASE ins.op = "Noop" -> Advance(w, p, FALSE)
          [] ins.op = "Move" ->
               IF r.val = None THEN r.w
               ELSE LET s == set_value(r.w, p, ins.dst, r.val[1])
                    IN  Advance(s.w, p, s.skip)
          [] ins.op = "Swap" -> Advance([w EXCEPT !.nodes[p] = swp(n)], p, FALSE)
          [] ins.op = "Save" -> Advance([w EXCEPT !.nodes[p] = sav(n)], p, FALSE)
          [] ins.op = "Add" ->
               IF r.val = None THEN r.w
               ELSE Advance([r.w EXCEPT !.nodes[p].accumulator = NumberAddAssign(@, r.val[1])],
                            p, FALSE)
          [] ins.op = "Subtract" ->
               IF r.val = None THEN r.w
               ELSE Advance([r.w EXCEPT !.nodes[p].accumulator = NumberSubAssign(@, r.val[1])],
                            p, FALSE)
          [] ins.op = "Negate" ->
               Advance([w EXCEPT !.nodes[p].accumulator = NumberNeg(@)], p, FALSE)
          [] ins.op \in JumpOps ->
               IF JumpTaken(n, ins.op) THEN JumpTo(w, p, ins.label)
               ELSE Advance(w, p, FALSE)
          [] ins.op = "JumpRelative" ->
               IF r.val = None THEN r.w
               ELSE [r.w EXCEPT !.nodes[p].ptr = jro_target(@, r.val[1])]

\* A tick without the early return on a busy port.
InstructionNode_tick_while_busy(w, p) ==
    LET n == w.nodes[p]
    IN  IF n.instructions = <<>> THEN w
        ELSE LET ptr == IF n.ptr >= Len(n.instructions) THEN 0 ELSE n.ptr
             IN  Execute([w EXCEPT !.nodes[p].ptr = ptr], p, n.instructions[ptr + 1])

\* A tick that brings a ptr past the end back by taking it modulo the length.
InstructionNode_tick_modulo(w, p) ==
    LET n == w.nodes[p]
    IN  IF n.instructions = <<>> THEN w
        ELSE IF n.give # "None" THEN w
        ELSE LET ptr == n.ptr % Len(n.instructions)
             IN  Execute([w EXCEPT !.nodes[p].ptr = ptr], p, n.instructions[ptr + 1])

\* InstructionNode::tick
InstructionNode_tick(w, p) ==
    LET n == w.nodes[p]
    IN  IF n.instructions = <<>> THEN w
        ELSE IF n.give # "None" THEN w
        ELSE LET ptr == IF n.ptr >= Len(n.instructions) THEN 0 ELSE n.ptr
             IN  Execute([w EXCEPT !.nodes[p].ptr = ptr], p, n.instructions[ptr + 1])

\* InstructionNode::handle_give
InstructionNode_handle_give(w, p) ==
    LET n == w.nodes[p]
    IN  IF ~(n.give = "None" /\ n.give_value # None) THEN w
        ELSE IF n.ptr >= Len(n.instructions)
        THEN Fail(w, "InstructionNode::handle_give: instructions[ptr] is out of bounds")
        ELSE LET ins == n.instructions[n.ptr + 1]
                 register == ins.dst
             IN  IF ins.op # "Move"
                 THEN Fail(w, "InstructionNode::handle_give: unreachable!()")
                 ELSE CASE register \in Direction ->
                             [w EXCEPT !.nodes[p].ptr = @ + 1, !.nodes[p].give = register]
                        [] register = "Any" ->
                             [w EXCEPT !.nodes[p].ptr = @ + 1, !.nodes[p].give = "Any"]
                        [] register = "Last" /\ n.last # "None" ->
                             [w EXCEPT !.nodes[p].ptr = @ + 1, !.nodes[p].give = n.last]
                        [] OTHER -> w

\* A post_handle_give that records the direction of every handoff.
InstructionNode_post_handle_give_records_all(w, p) ==
    LET n == w.nodes[p]
    IN  IF n.giving_to = "None" THEN [w |-> w, pos |-> None]
        ELSE [w |-> [w EXCEPT !.nodes[p].last = n.giving_to, !.nodes[p].give = "Given"],
              pos |-> Some(in_direction(n.position, n.giving_to))]

\* A post_handle_give that does not record the direction it gave to.
InstructionNode_post_handle_give_keeps_last(w, p) ==
    LET n == w.nodes[p]
    IN  IF n.giving_to = "None" THEN [w |-> w, pos |-> None]
        ELSE [w |-> [w EXCEPT !.nodes[p].give = "Given"],
              pos |-> Some(in_direction(n.position, n.giving_to))]

\* InstructionNode::post_handle_give; pos is the returned Option<Position>.
InstructionNode_post_handle_give(w, p) ==
    LET n == w.nodes[p]
    IN  IF n.giving_to = "None" THEN [w |-> w, pos |-> None]
        ELSE [w |-> [w EXCEPT !.nodes[p].last = IF n.give = "Any" THEN n.giving_to ELSE @,
                              !.nodes[p].give = "Given"],
              pos |-> Some(in_direction(n.position, n.giving_to))]

\* A clean-up that clears giving_to and leaves the port Given.
InstructionNode_post_post_handle_give_keeps_given(w, p) ==
    IF w.nodes[p].giving_to = "None" THEN w
    ELSE [w EXCEPT !.nodes[p].giving_to = "None"]

\* A clean-up that clears give and forgets to clear giving_to.
InstructionNode_post_post_handle_give_keeps_giving_to(w, p) ==
    IF w.nodes[p].giving_to = "None" THEN w
    ELSE [w EXCEPT !.nodes[p].give = "None"]

\* InstructionNode::post_post_handle_give
InstructionNode_post_post_handle_give(w, p) ==
    IF w.nodes[p].giving_to = "None" THEN w
    ELSE [w EXCEPT !.nodes[p].give = "None", !.nodes[p].giving_to = "None"]

\* -------------------------------------------------------------- console nodes
\* The bytes print! writes for `value as u8 as char`: a char is written in
\* UTF-8, one byte below 128 and two bytes from 128 to 255.
Utf8(c) == IF c < 128 THEN <<c>> ELSE <<192 + (c \div 64), 128 + (c % 64)>>

\* What an output node does with a value it has taken: ConsoleOutNode prints
\* the character when 0 <= value < 256 and drops the value otherwise;
\* NumberConsoleOutNode prints the decimal value and a newline.
Emit(w, p, value) ==
    IF w.nodes[p].kind = "ConsoleOutNode"
    THEN IF 0 <= value /\ value < ByteLimit
         THEN [w EXCEPT !.out = @ \o [i \in 1..Len(Utf8(value)) |->
                                         [kind |-> "byte", v |-> Utf8(value)[i]]]]
         ELSE w
    ELSE [w EXCEPT !.out = Append(@, [kind |-> "line", v |-> value])]

\* ConsoleOutNode::tick / NumberConsoleOutNode::tick: the loop over
\* all::<Direction>() from the i-th direction on.  Every neighbour is visited.
RECURSIVE OutNode_tick(_, _, _)
OutNode_tick(w, p, i) ==
    IF i > Len(AllDirections) \/ w.fatal # "" THEN w
    ELSE LET d == AllDirections[i]
         IN  IF Slot(w, p, d) = None THEN OutNode_tick(w, p, i + 1)
             ELSE LET q == Slot(w, p, d)[1]
                      n == w.nodes[q]
                      g == give(n)
                      t == take(w, q, opposite(d))
                      w1 == CASE g = "None" -> w
                              [] g = "Any" ->
                                   set_giving_to(w, q,
                                       IF giving_to(n) = "None" THEN opposite(d)
                                       ELSE DirectionMin(giving_to(n), opposite(d)))
                              [] g \in Direction ->
                                   IF g = opposite(d) THEN set_giving_to(w, q, opposite(d))
                                   ELSE w
                              [] g = "Given" ->
                                   IF t.w.fatal # "" THEN t.w
                                   ELSE IF t.val = None
                                   THEN Fail(t.w, "console out: take().unwrap() on None")
                                   ELSE Emit(t.w, p, t.val[1])
                  IN  OutNode_tick(w1, p, i + 1)

\* A post_handle_give that fetches the next input as soon as the port is bound.
InNode_post_handle_give_reads_ahead(w, p) ==
    LET n == w.nodes[p]
    IN  IF n.giving_to = "None" THEN [w |-> w, pos |-> None]
        ELSE [w |-> [give_value(w, p) EXCEPT !.nodes[p].give = "Given"],
              pos |-> Some(in_direction(n.position, n.giving_to))]

\* ConsoleInNode::post_handle_give / NumberConsoleInNode::post_handle_give
InNode_post_handle_give(w, p) ==
    LET n == w.nodes[p]
    IN  IF n.giving_to = "None" THEN [w |-> w, pos |-> None]
        ELSE [w |-> [w EXCEPT !.nodes[p].give = "Given"],
              pos |-> Some(in_direction(n.position, n.giving_to))]

\* A clean-up that frees the port the way a compute node does.
InNode_post_post_handle_give_to_none(w, p) ==
    [w EXCEPT !.nodes[p].give = "None", !.nodes[p].giving_to = "None"]

\* ConsoleInNode::post_post_handle_give / NumberConsoleInNode::post_post_handle_give
InNode_post_post_handle_give(w, p) ==
    [w EXCEPT !.nodes[p].give = "Any", !.nodes[p].giving_to = "None"]

\* ------------------------------------------------- dyn Node: dynamic dispatch
\* Node::tick
tick(w, p) ==
    LET k == w.nodes[p].kind
    IN  CASE k = "InstructionNode" -> InstructionNode_tick(w, p)
          [] k \in OutputKinds -> OutNode_tick(w, p, 1)
          [] k \in InputKinds -> w

\* Node::handle_give
handle_give(w, p) ==
    IF w.nodes[p].kind = "InstructionNode" THEN InstructionNode_handle_give(w, p) ELSE w

\* Node::post_handle_give
post_handle_give(w, p) ==
    LET k == w.nodes[p].kind
    IN  CASE k = "InstructionNode" -> InstructionNode_post_handle_give(w, p)
          [] k \in InputKinds -> InNode_post_handle_give(w, p)
          [] k \in OutputKinds -> [w |-> w, pos |-> None]

\* Node::post_post_handle_give
post_post_handle_give(w, p) ==
    LET k == w.nodes[p].kind
    IN  CASE k = "InstructionNode" -> InstructionNode_post_post_handle_give(w, p)
          [] k \in InputKinds -> InNode_post_post_handle_give(w, p)
          [] k \in OutputKinds -> w

\* ----------------------------------------------------------------------- TIS
\* TIS::add_node, the loop over all::<Direction>() from the i-th direction on:
\* cross-link the new node with the node found at position + dir.  checks
\* tells whether the build panics on i32 overflow.
RECURSIVE add_node_links(_, _, _, _)
add_node_links(w, node, checks, i) ==
    IF i > Len(AllDirections) \/ w.fatal # "" THEN [w |-> w, node |-> node]
    ELSE LET dir == AllDirections[i]
             dir_pos == in_direction(node.position, dir)
         IN  IF checks /\ in_direction_overflows(node.position, dir)
             THEN [w |-> Fail(w, "Position::in_direction: attempt to add with overflow"),
                   node |-> node]
             ELSE IF dir_pos \in DOMAIN w.nodes
             THEN add_node_links(
                      [w EXCEPT !.nodes[dir_pos].slot[opposite(dir)] = Some(node.position)],
                      [node EXCEPT !.slot[dir] = Some(dir_pos)], checks, i + 1)
             ELSE add_node_links(w, node, checks, i + 1)

\* An add_node that does not look whether the position is taken.
add_node_replacing(w, node, checks) ==
    LET l == add_node_links(w, node, checks, 1)
    IN  IF l.w.fatal # "" THEN l.w
        ELSE [l.w EXCEPT !.nodes =
                 [q \in DOMAIN l.w.nodes \cup {node.position} |->
                     IF q = node.position THEN l.node ELSE l.w.nodes[q]]]

\* TIS::add_node
add_node(w, node, checks) ==
    IF node.position \in DOMAIN w.nodes
    THEN Fail(w, "TIS::add_node: node already exists at position")
    ELSE LET l == add_node_links(w, node, checks, 1)
         IN  IF l.w.fatal # "" THEN l.w
             ELSE [l.w EXCEPT !.nodes =
                      [q \in DOMAIN l.w.nodes \cup {node.position} |->
                          IF q = node.position THEN l.node ELSE l.w.nodes[q]]]

\* TIS::tick, first loop: node.tick() for the nodes in the order given.
RECURSIVE tick_all(_, _, _)
tick_all(w, order, i) ==
    IF i > Len(order) \/ w.fatal # "" THEN w
    ELSE tick_all(tick(w, order[i]), order, i + 1)

\* TIS::tick, second loop: node.handle_give().
RECURSIVE handle_give_all(_, _, _)
handle_give_all(w, order, i) ==
    IF i > Len(order) \/ w.fatal # "" THEN w
    ELSE handle_give_all(handle_give(w, order[i]), order, i + 1)

\* self.nodes.get(&pos).map(|n| n.borrow_mut().tick())
retick(w, pos) == IF pos \in DOMAIN w.nodes THEN tick(w, pos) ELSE w

\* The body of the third loop of TIS::tick for the node at p.
complete_transfer(w, p) ==
    LET r == post_handle_give(w, p)
    IN  IF r.pos = None THEN r.w
        ELSE LET w1 == retick(r.w, r.pos[1])
             IN  IF w1.fatal # "" THEN w1 ELSE post_post_handle_give(w1, p)

\* TIS::tick, third loop.
RECURSIVE complete_transfer_all(_, _, _)
complete_transfer_all(w, order, i) ==
    IF i > Len(order) \/ w.fatal # "" THEN w
    ELSE complete_transfer_all(complete_transfer(w, order[i]), order, i + 1)

\* TIS::tick with the iteration order of each of its three loops given.
TIS_tick(w, orderA, orderB, orderC) ==
    complete_transfer_all(handle_give_all(tick_all(w, orderA, 1), orderB, 1), orderC, 1)

\* ------------------------------------------------------------------ programs
\* The parser's output: node definitions to be handed to add_node, and the
\* lines standard input will deliver.
P00 == <<0, 0>>

P10 == <<1, 0>>

P20 == <<2, 0>>

P01 == <<0, 1>>

PEast == <<I32Max, 0>>

PWest == <<I32Min, 0>>

Code(pos, instructions) == InstructionNode(pos, {}, instructions, 0, 0)

\* Positions (0,0), (1,0), (2,0): a row.
RowWest ==
    { InNode("ConsoleInNode", P00),
      InNode("NumberConsoleInNode", P00),
      Code(P00, <<Move(Num(1), "Right"), Noop, Noop>>),
      Code(P00, <<Noop, Move(Num(2), "Right")>>),
      Code(P00, <<Move(Num(5), "Any")>>),
      Code(P00, <<Move(Reg("Right"), "Accumulator")>>) }

RowMiddle ==
    { Code(P10, <<Move(Reg("Left"), "Right")>>),
      Code(P10, <<Move(Reg("Any"), "Accumulator")>>),
      Code(P10, <<Add(Reg("Any")), Move(Reg("Accumulator"), "Last")>>),
      Code(P10, <<Move(Num(7), "Any"), Move(Reg("Last"), "Accumulator")>>),
      Code(P10, <<Move(Reg("Any"), "Any")>>) }

RowEast ==
    { OutNode("ConsoleOutNode", P20),
      OutNode("NumberConsoleOutNode", P20),
      Code(P20, <<Move(Reg("Left"), "Accumulator")>>),
      Code(P20, <<Move(Num(300), "Left"), Noop>>),
      Code(P20, <<Move(Reg("Any"), "Accumulator"), Move(Reg("Accumulator"), "Left")>>) }

\* Positions (0,0), (1,0), (0,1): a corner.
CornerOrigin ==
    { Code(P00, <<Move(Num(7), "Any")>>),
      Code(P00, <<Move(Reg("Any"), "Accumulator")>>),
      Code(P00, <<Subtract(Reg("Any")), JumpRelative(Reg("Any"))>>),
      InNode("NumberConsoleInNode", P00) }

CornerRight ==
    { Code(P10, <<Move(Reg("Left"), "Accumulator")>>),
      Code(P10, <<Move(Num(4), "Left"), Noop, Noop>>),
      Code(P10, <<Move(Reg("Any"), "Accumulator")>>),
      Code(P10, <<Move(Num(4), "Any"), Noop>>),
      OutNode("NumberConsoleOutNode", P10) }

CornerUp ==
    { Code(P01, <<Move(Reg("Down"), "Accumulator")>>),
      Code(P01, <<Noop, Move(Num(2), "Down")>>),
      Code(P01, <<Move(Num(3), "Any"), Noop>>),
      OutNode("ConsoleOutNode", P01) }

\* Positions (0,0), (1,0), (2,0), (0,1): a row with a node above its west end.
TeeWest ==
    { Code(P00, <<Move(Reg("Any"), "Accumulator")>>),
      Code(P00, <<Move(Reg("Right"), "Accumulator")>>),
      Code(P00, <<Move(Reg("Up"), "Right"), Add(Num(1))>>) }

TeeMiddle ==
    { Code(P10, <<Move(Num(7), "Any")>>),
      Code(P10, <<Move(Num(7), "Any"), Move(Num(8), "Last")>>),
      Code(P10, <<Move(Num(300), "Left"), Noop, Move(Num(1), "Right")>>),
      Code(P10, <<Move(Reg("Any"), "Accumulator")>>) }

TeeEast ==
    { Code(P20, <<Move(Reg("Left"), "Accumulator")>>),
      Code(P20, <<Move(Num(9), "Left")>>),
      OutNode("NumberConsoleOutNode", P20) }

TeeUp ==
    { Code(P01, <<Noop, Move(Num(2), "Down")>>),
      Code(P01, <<Move(Num(2), "Down")>>),
      Code(P01, <<Move(Reg("Down"), "Accumulator")>>),
      InNode("NumberConsoleInNode", P01) }

\* Initial values of acc and bak.
RegisterSamples == {-999, -4, 0, 3, 999}

\* A single node: programs that do not communicate.
Solo ==
    { InstructionNode(P00, {}, <<>>, 0, 0),
      InstructionNode(P00, {}, <<Add(Num(20)), Add(Num(20))>>, 990, 0),
      InstructionNode(P00, {}, <<Subtract(Num(600)), Negate>>, -500, 0),
      InstructionNode(P00, {}, <<JumpRelative(Num(-5)), Noop, Noop>>, 0, 0),
      InstructionNode(P00, {}, <<JumpRelative(Num(2)), Noop, JumpRelative(Num(5))>>, 0, 0),
      InstructionNode(P00, {}, <<JumpRelative(Reg("Accumulator")), Add(Num(1))>>, 1, 0),
      InstructionNode(P00, {}, <<JumpRelative(Num(3)), Add(Num(1))>>, 0, 0),
      InstructionNode(P00, {<<"top", 0>>, <<"end", 2>>},
                      <<Add(Num(1)), Jump("end")>>, 0, 0),
      InstructionNode(P00, {<<"a", 0>>, <<"b", 2>>},
                      <<Subtract(Num(1)), JumpLessThanZero("b"),
                        Negate, JumpGreaterThanZero("a")>>, 0, 0),
      InstructionNode(P00, {<<"a", 0>>, <<"b", 3>>},
                      <<JumpEqualZero("b"), Add(Num(1)), Noop,
                        Add(Num(1)), JumpNotZero("a")>>, 0, 0),
      InstructionNode(P00, {}, <<Move(Num(3), "Nil"), Move(Reg("Nil"), "Accumulator")>>, 5, 6),
      InstructionNode(P00, {}, <<Move(Reg("Last"), "Accumulator"), Move(Num(1), "Last")>>, 5, 0),
      InstructionNode(P00, {}, <<Move(Num(5), "Right"), Noop>>, 0, 0),
      InstructionNode(P00, {}, <<Move(Reg("Up"), "Accumulator")>>, 0, 0) }
    \cup { InstructionNode(P00, {}, <<Swap, Swap, Save, Save>>, a, b) :
               a \in RegisterSamples, b \in RegisterSamples }

\* Two nodes at the two ends of the i32 range of x.
EdgeEast == { Code(PEast, <<Move(Num(1), "Right")>>), Code(PEast, <<Move(Reg("Right"), "Accumulator")>>) }

EdgeWest == { Code(PWest, <<Move(Reg("Left"), "Accumulator")>>), Code(PWest, <<Move(Num(9), "Left")>>) }

\* Two definitions for position (0,0), and a neighbour at (1,0).
ClashFirst == { Code(P00, <<Noop>>), OutNode("ConsoleOutNode", P00) }

ClashSecond == { Code(P00, <<Move(Num(1), "Right")>>), InNode("ConsoleInNode", P00) }

ClashBeside == { Code(P10, <<Move(Reg("Left"), "Accumulator")>>) }

\* Positions (0,0), (1,0): a producer and a consumer.
Pair ==
    { { Code(P00, <<Move(Num(5), "Any")>>), Code(P10, <<Move(Reg("Left"), "Accumulator")>>) },
      { Code(P00, <<Move(Num(5), "Any"), Noop>>),
        Code(P10, <<Move(Reg("Left"), "Accumulator"), Add(Num(1))>>) },
      { Code(P00, <<Move(Num(5), "Right"), Move(Num(6), "Any")>>),
        InstructionNode(P10, {}, <<Move(Reg("Left"), "Nil"), Move(Reg("Any"), "Nil")>>, 3, 4) },
      { Code(P00, <<Move(Num(5), "Right")>>),
        InstructionNode(P10, {},
            <<Move(Reg("Last"), "Accumulator"), Add(Reg("Last")), Move(Reg("Left"), "Accumulator")>>,
            3, 0) },
      { Code(P00, <<Noop, Add(Reg("Right"))>>), OutNode("ConsoleOutNode", P10) } }

\* Standard input, as lines of bytes: "A\n" then "7\n"; the two chars U+00E9
\* and U+20AC and "\n", then "-1000\n", then "42\n"; "42\n" then "-7\n";
\* "1000\n" then "200\n"; a byte that is not UTF-8.
Inputs ==
    { << <<65, 10>>, <<55, 10>> >>,
      << <<195, 169, 226, 130, 172, 10>>, <<45, 49, 48, 48, 48, 10>>, <<52, 50, 10>> >>,
      << <<255, 10>> >>,
      << <<52, 50, 10>>, <<45, 55, 10>> >>,
      << <<49, 48, 48, 48, 10>>, <<50, 48, 48, 10>> >> }

HasInput(defs) == \E n \in defs : n.kind \in InputKinds

OnEdge(defs) == \E n \in defs : \E d \in Direction : in_direction_overflows(n.position, d)

Layouts ==
    { {a, b, c} : a \in RowWest, b \in RowMiddle, c \in RowEast }
    \cup { {a, b, c} : a \in CornerOrigin, b \in CornerRight, c \in CornerUp }
    \cup { {a, b, c, d} : a \in TeeWest, b \in TeeMiddle, c \in TeeEast, d \in TeeUp }
    \cup { {a} : a \in Solo }
    \cup { {a, b} : a \in EdgeEast, b \in EdgeWest }
    \cup { {a, b, c} : a \in ClashFirst, b \in ClashSecond, c \in ClashBeside }
    \cup Pair

\* ------------------------------------------------------------- state machine
VARIABLES
    nodes,            \* TIS::nodes: position -> node
    stdin,            \* the input lines not yet read
    out,              \* what has been printed
    fatal,            \* "" while running, else the reason the process stopped
    log,              \* the port calls of the current global tick
    pending,          \* the node definitions not yet handed to add_node
    overflow_checks,  \* whether the build panics on integer overflow
    order,            \* the order in which nodes.values() yields the nodes
    phase,            \* "build", or the loop of TIS::tick being run: "A", "B", "C"
    idx,              \* the index in order of the node the loop visits next
    partner,          \* third loop: the position post_handle_give returned
                      \* for order[idx], until the node there has been re-ticked
    given,            \* third loop: whether order[idx] is between its
                      \* post_handle_give and its post_post_handle_give
    ticks,            \* the number of completed global ticks
    start,            \* the node map at the start of the current global tick
    typed,            \* all of standard input, as it is at the start
    taken,            \* the values taken from ports so far, in order, each
                      \* with the position of the node it was taken from
    call              \* a call of a function of Number on its own: the
                      \* function, its arguments and, once returned, its result

vars == <<nodes, stdin, out, fatal, log, pending, overflow_checks, order, phase, idx,
          partner, given, ticks, start, typed, taken, call>>

World ==
    [nodes |-> nodes, stdin |-> stdin, out |-> out, fatal |-> fatal, log |-> log,
     taken |-> taken]

Becomes(w) ==
    /\ nodes' = w.nodes
    /\ stdin' = w.stdin
    /\ out' = w.out
    /\ fatal' = w.fatal
    /\ log' = w.log
    /\ taken' = w.taken

\* The orders in which a HashMap with the keys S can yield its entries.
Orders(S) == {o \in [1..Cardinality(S) -> S] : \A i, j \in 1..Cardinality(S) : o[i] = o[j] => i = j}

NoCall == [fn |-> "", args |-> <<>>, ret |-> None]

Init ==
    /\ pending \in Layouts
    /\ stdin \in (IF HasInput(pending) THEN Inputs ELSE {<<>>})
    /\ overflow_checks \in (IF OnEdge(pending) THEN BOOLEAN ELSE {FALSE})
    /\ nodes = <<>>
    /\ out = <<>>
    /\ fatal = ""
    /\ log = {}
    /\ order = <<>>
    /\ phase = "build"
    /\ idx = 1
    /\ partner = None
    /\ given = FALSE
    /\ ticks = 0
    /\ start = <<>>
    /\ typed = stdin
    /\ taken = <<>>
    /\ call = NoCall

Positions == DOMAIN nodes

\* parse: one call of add_node.  The tick loop starts after the last one; the
\* map is not changed any more, so its iteration order is fixed from then on.
AddNode(def) ==
    /\ phase = "build"
    /\ fatal = ""
    /\ def \in pending
    /\ Becomes(add_node(World, def, overflow_checks))
    /\ pending' = pending \ {def}
    /\ IF pending' = {} /\ fatal' = ""
       THEN phase' = "A" /\ order' \in Orders(DOMAIN nodes')
       ELSE phase' = "build" /\ order' = order
    /\ UNCHANGED <<call, typed, overflow_checks, idx, partner, given, ticks, start>>

LastOfLoop == idx = Len(order)

\* First loop of TIS::tick: one node.tick().
TickNode ==
    /\ phase = "A"
    /\ fatal = ""
    /\ ticks < MaxTicks
    /\ Becomes(tick(IF idx = 1 THEN [World EXCEPT !.log = {}] ELSE World, order[idx]))
    /\ start' = IF idx = 1 THEN nodes ELSE start
    /\ idx' = IF LastOfLoop THEN 1 ELSE idx + 1
    /\ phase' = IF LastOfLoop THEN "B" ELSE "A"
    /\ UNCHANGED <<call, typed, pending, overflow_checks, order, partner, given, ticks>>

\* Second loop of TIS::tick: one node.handle_give().
HandleGive ==
    /\ phase = "B"
    /\ fatal = ""
    /\ Becomes(handle_give(World, order[idx]))
    /\ idx' = IF LastOfLoop THEN 1 ELSE idx + 1
    /\ phase' = IF LastOfLoop THEN "C" ELSE "B"
    /\ UNCHANGED <<call, typed, pending, overflow_checks, order, partner, given, ticks, start>>

\* The third loop moves on to the next node, or the global tick ends.
Visited ==
    /\ idx' = IF LastOfLoop THEN 1 ELSE idx + 1
    /\ phase' = IF LastOfLoop THEN "A" ELSE "C"
    /\ ticks' = IF LastOfLoop THEN ticks + 1 ELSE ticks

\* Third loop of TIS::tick: node.post_handle_give().
PostHandleGive ==
    /\ phase = "C"
    /\ fatal = ""
    /\ ~given
    /\ LET r == post_handle_give(World, order[idx])
       IN  /\ Becomes(r.w)
           /\ IF r.pos = None
              THEN Visited /\ UNCHANGED <<given, partner>>
              ELSE given' = TRUE /\ partner' = r.pos /\ UNCHANGED <<idx, phase, ticks>>
    /\ UNCHANGED <<call, typed, pending, overflow_checks, order, start>>

\* Third loop of TIS::tick: the node at the returned position is ticked.
Retick ==
    /\ phase = "C"
    /\ fatal = ""
    /\ given
    /\ partner # None
    /\ Becomes(retick(World, partner[1]))
    /\ partner' = None
    /\ UNCHANGED <<call, typed, pending, overflow_checks, order, phase, idx, given, ticks, start>>

\* Third loop of TIS::tick: node.post_post_handle_give().
PostPostHandleGive ==
    /\ phase = "C"
    /\ fatal = ""
    /\ given
    /\ partner = None
    /\ Becomes(post_post_handle_give(World, order[idx]))
    /\ Visited
    /\ given' = FALSE
    /\ UNCHANGED <<call, typed, pending, overflow_checks, order, partner, start>>

Next ==
    \/ \E def \in pending : AddNode(def)
    \/ TickNode
    \/ HandleGive
    \/ PostHandleGive
    \/ Retick
    \/ PostPostHandleGive

Spec == Init /\ [][Next]_vars

\* ------------------------------------------------- Number, called on its own
\* The arguments tried: the integers within Near of -999, 0 and 999, both
\* halves' midpoints, and the ends of the integer types.
Near == 2

MaxLen == 5

Around(c) == (c - Near)..(c + Near)

NumberSamples == ((0 - 999)..(Near - 999)) \cup Around(0) \cup ((999 - Near)..999) \cup {-500, 500}

I8Samples == {-128, -127, -1, 0, 1, 127}

U8Samples == {0, 1, 254, 255}

SignedSamples == Around(-999) \cup Around(0) \cup Around(999) \cup {-32768, 32767, I32Min, I32Max}

UnsignedSamples == (0..Near) \cup Around(999) \cup {32767, 32768, 65535, I32Max}

\* The characters '-', '0', '1', '9' and 'x'.
Alphabet == {Minus, 48, 49, 57, 120}

Strings == UNION {[1..k -> Alphabet] : k \in 0..MaxLen}

Calling(fn, Args) == {[fn |-> fn, args |-> a, ret |-> None] : a \in Args}

\* The calls tried: two Numbers, one Number, one integer, one string.
ArithmeticCalls ==
    Calling("add", NumberSamples \X NumberSamples)
    \cup Calling("sub", NumberSamples \X NumberSamples)
    \cup Calling("add_assign", NumberSamples \X NumberSamples)
    \cup Calling("sub_assign", NumberSamples \X NumberSamples)
    \cup Calling("neg", {<<a>> : a \in NumberSamples})

ConversionCalls ==
    Calling("from_i8", {<<n>> : n \in I8Samples})
    \cup Calling("from_u8", {<<n>> : n \in U8Samples})
    \cup Calling("from_signed", {<<n>> : n \in SignedSamples})
    \cup Calling("from_unsigned", {<<n>> : n \in UnsignedSamples})

ParsingCalls == Calling("from_str", {<<t>> : t \in Strings})

\* No grid is built; one function of Number is about to be called.
CallInit ==
    /\ \/ call \in ArithmeticCalls
       \/ call \in ConversionCalls
       \/ call \in ParsingCalls
    /\ overflow_checks \in BOOLEAN
    /\ pending = {}
    /\ stdin = <<>>
    /\ typed = <<>>
    /\ taken = <<>>
    /\ nodes = <<>>
    /\ out = <<>>
    /\ fatal = ""
    /\ log = {}
    /\ order = <<>>
    /\ phase = "build"
    /\ idx = 1
    /\ partner = None
    /\ given = FALSE
    /\ ticks = 0
    /\ start = <<>>

\* The call of fn returns v.
Returns(fn, v) ==
    /\ call.fn = fn
    /\ call.ret = None
    /\ call' = [call EXCEPT !.ret = Some(v)]
    /\ UNCHANGED <<nodes, stdin, out, fatal, log, pending, overflow_checks, order, phase,
                   idx, partner, given, ticks, start, typed, taken>>

\* An i16 operation whose mathematical result is x: a panic when the build
\* checks overflow and x is outside i16, else the value v the code computes.
Checked(x, v) == IF overflow_checks /\ I16Overflows(x) THEN "panic" ELSE v

Call_add == Returns("add", Checked(call.args[1] + call.args[2], NumberAdd(call.args[1], call.args[2])))

Call_sub == Returns("sub", Checked(call.args[1] - call.args[2], NumberSub(call.args[1], call.args[2])))

Call_add_assign ==
    Returns("add_assign",
            Checked(call.args[1] + call.args[2], NumberAddAssign(call.args[1], call.args[2])))

Call_sub_assign ==
    Returns("sub_assign",
            Checked(call.args[1] - call.args[2], NumberSubAssign(call.args[1], call.args[2])))

Call_neg == Returns("neg", Checked(0 - call.args[1], NumberNeg(call.args[1])))

Call_from_i8 == Returns("from_i8", From_i8(call.args[1]))

Call_from_u8 == Returns("from_u8", From_u8(call.args[1]))

Call_from_signed == Returns("from_signed", NumberFrom(call.args[1]))

Call_from_unsigned == Returns("from_unsigned", From_unsigned(call.args[1]))

\* The result of from_str: <<>> for Err, <<v>> for Ok(Number(v)).
Call_from_str == Returns("from_str", from_str(call.args[1]))

CallNext ==
    \/ Call_add
    \/ Call_sub
    \/ Call_add_assign
    \/ Call_sub_assign
    \/ Call_neg
    \/ Call_from_i8
    \/ Call_from_u8
    \/ Call_from_signed
    \/ Call_from_unsigned
    \/ Call_from_str

\* The program, or one function of Number called on its own.
NumberSpec == (Init \/ CallInit) /\ [][Next \/ CallNext]_vars

\* ------------------------------------------------------------ integer echo
\* number_console_in at (0,0), `mov left, right` at (1,0), number_console_out
\* at (2,0).
EchoLayout ==
    { InNode("NumberConsoleInNode", P00),
      Code(P10, <<Move(Reg("Left"), "Right")>>),
      OutNode("NumberConsoleOutNode", P20) }

EchoInit == Init /\ pending = EchoLayout

\* Where the run stands: the nodes still to be placed and the position of
\* TIS::tick in its three loops.
loop == <<pending, phase, idx, partner, given, ticks>>

\* What each step of Next does to the position of the run.  The handlers are
\* total, so a step of the run is possible exactly when this one is.
LoopStep ==
    /\ fatal = ""
    /\ \/ /\ phase = "build"
          /\ \E def \in pending : pending' = pending \ {def}
          /\ phase' \in {"build", "A"}
          /\ UNCHANGED <<idx, partner, given, ticks>>
       \/ /\ phase \in {"A", "B"}
          /\ phase = "A" => ticks < MaxTicks
          /\ idx' = IF LastOfLoop THEN 1 ELSE idx + 1
          /\ phase' = IF ~LastOfLoop THEN phase ELSE IF phase = "A" THEN "B" ELSE "C"
          /\ UNCHANGED <<pending, partner, given, ticks>>
       \/ /\ phase = "C"
          /\ ~given
          /\ \/ Visited /\ UNCHANGED <<given, partner>>
             \/ given' = TRUE /\ partner' \in {<<p>> : p \in Positions} /\ UNCHANGED <<idx, phase, ticks>>
          /\ UNCHANGED pending
       \/ /\ phase = "C"
          /\ given
          /\ partner # None
          /\ partner' = None
          /\ UNCHANGED <<pending, phase, idx, given, ticks>>
       \/ /\ phase = "C"
          /\ given
          /\ partner = None
          /\ Visited
          /\ given' = FALSE
          /\ UNCHANGED <<pending, partner>>

\* main's loop calls TIS::tick again and again, and tick runs its loops to
\* their ends: a step that can be taken is taken.
EchoSpec == EchoInit /\ [][Next]_vars /\ WF_loop(LoopStep)

\* The call of fn has returned.
Returned(fn) == call.fn = fn /\ call.ret # None

\* Between two global ticks.
AtBoundary == phase = "A" /\ idx = 1

TickDone == AtBoundary /\ ticks > 0 /\ fatal = ""

\* ------------------------------------------------------------ shared notions
Computes == {p \in Positions : nodes[p].kind = "InstructionNode"}

\* The position one step from pos in direction d, on the i32 grid: Up
\* increases y, Down decreases y, Right increases x, Left decreases x.
Shift(pos, d) ==
    CASE d = "Up" -> <<pos[1], IF pos[2] = I32Max THEN I32Min ELSE pos[2] + 1>>
      [] d = "Down" -> <<pos[1], IF pos[2] = I32Min THEN I32Max ELSE pos[2] - 1>>
      [] d = "Right" -> <<IF pos[1] = I32Max THEN I32Min ELSE pos[1] + 1, pos[2]>>
      [] d = "Left" -> <<IF pos[1] = I32Min THEN I32Max ELSE pos[1] - 1, pos[2]>>

\* The directions from which set_giving_to was called on x, and the directions
\* into which x's value was taken, so far in the current global tick.
Contenders(x) == {e.dir : e \in {f \in log : f.ev = "set_giving_to" /\ f.at = x}}

Takers(x) == {e.dir : e \in {f \in log : f.ev = "take" /\ f.at = x}}

MinDirection(S) == CHOOSE d \in S : \A e \in S : DirectionOrd(d) <= DirectionOrd(e)

\* The node the third loop is at is between post_handle_give and the re-tick
\* of its partner / between that re-tick and post_post_handle_give.
BeforeRetick == phase = "C" /\ given /\ partner # None /\ fatal = ""

AfterRetick == phase = "C" /\ given /\ partner = None /\ fatal = ""

\* ------------------------------------------------------------------------ C1
\* x offered on Any at the start of the tick and two or more neighbours have
\* registered with it in this tick.
Contended(x) == start[x].give = "Any" /\ Cardinality(Contenders(x)) >= 2

\* The binding of a contended Any offer: giving_to, and last of a compute
\* producer, are the smallest contending direction, in every iteration order.
TieBreakBinding ==
    (phase = "C" /\ given /\ fatal = "" /\ Contended(order[idx])) =>
        LET x == order[idx]
        IN  /\ nodes[x].giving_to = MinDirection(Contenders(x))
            /\ x \in Computes => nodes[x].last = MinDirection(Contenders(x))

\* After the re-tick of the partner, the neighbour in the smallest contending
\* direction, and no other, has received the value.
TieBreakDelivery ==
    (AfterRetick /\ Contended(order[idx])) =>
        Takers(order[idx]) = {MinDirection(Contenders(order[idx]))}

\* The handoff leaves the registers and ptr of every other contender alone.
TieBreakFrame ==
    (BeforeRetick /\ Contended(order[idx])) =>
        LET x == order[idx]
        IN  \A d \in Contenders(x) \ {MinDirection(Contenders(x))} :
                LET c == Shift(x, d)
                IN  /\ nodes'[c].ptr = nodes[c].ptr
                    /\ nodes'[c].accumulator = nodes[c].accumulator
                    /\ nodes'[c].backup = nodes[c].backup
                    /\ nodes'[c].last = nodes[c].last

\* C1: Any tie-break.  When two or more neighbours register with a node whose
\* port is Any during one global tick, the handoff of that tick is bound to the
\* neighbour in the smallest direction (Up < Left < Right < Down) as seen from
\* the producer: giving_to and then last are that direction, that neighbour
\* alone receives the value, and the other contenders' registers and ptr are
\* unchanged, in every iteration order.
C1_AnyTieBreak == [](TieBreakBinding /\ TieBreakDelivery) /\ [][TieBreakFrame]_vars

\* ------------------------------------------------------------------------ C2
Strip(w) == [w EXCEPT !.log = {}]

\* What one TIS::tick can leave behind from w, over every iteration order of
\* each of its three loops: the node map and the output.
AfterLoopA(w) == {Strip(tick_all(w, o, 1)) : o \in Orders(DOMAIN w.nodes)}

AfterLoopB(w) ==
    UNION {{Strip(handle_give_all(a, o, 1)) : o \in Orders(DOMAIN w.nodes)} : a \in AfterLoopA(w)}

AfterLoopC(w) ==
    UNION {{Strip(complete_transfer_all(b, o, 1)) : o \in Orders(DOMAIN w.nodes)} :
              b \in AfterLoopB(w)}

TickOutcomes(w) == {<<c.nodes, c.out>> : c \in AfterLoopC(w)}

\* C2: iteration-order independence.  From every reachable state between two
\* global ticks, one TIS::tick leaves the same node states (ptr, accumulator,
\* backup, last, give, giving_to, give_value) and the same output for every
\* order in which each of the three loops visits the nodes.
C2_OrderIndependence ==
    (AtBoundary /\ fatal = "") => Cardinality(TickOutcomes(Strip(World))) = 1

\* ------------------------------------------------------------------------ C3
\* The instruction the node n executes at its next step.
Current(n) == n.instructions[(IF n.ptr >= Len(n.instructions) THEN 0 ELSE n.ptr) + 1]

\* The neighbour of a in direction d offers a value a could read.
OffersTo(ns, a, d) ==
    /\ ns[a].slot[d] # None
    /\ give(ns[ns[a].slot[d][1]]) \in {"Any", opposite(d)}

\* At the start of the tick: b, in direction d of a, offers a staged value on
\* Any; a is idle with nothing staged, is about to read from Any, and has no
\* other offering neighbour.
AnyPair(a, d) ==
    /\ start[a].kind = "InstructionNode"
    /\ start[a].slot[d] # None
    /\ start[start[a].slot[d][1]].kind = "InstructionNode"
    /\ start[start[a].slot[d][1]].give = "Any"
    /\ start[start[a].slot[d][1]].give_value # None
    /\ start[a].give = "None"
    /\ start[a].give_value = None
    /\ start[a].instructions # <<>>
    /\ Current(start[a]).op \in {"Move", "Add", "Subtract", "JumpRelative"}
    /\ Current(start[a]).src = Reg("Any")
    /\ \A e \in Direction \ {d} : ~OffersTo(start, a, e)

\* C3: Any-to-Any handoff.  For adjacent compute nodes a and b in the situation
\* AnyPair at the start of a global tick, at the end of that tick a has
\* received b's value, b's port is None, and a.last and b.last are the
\* direction of the other node.
C3_AnyToAnyHandoff ==
    TickDone =>
        \A a \in Computes : \A d \in Direction :
            AnyPair(a, d) =>
                LET b == start[a].slot[d][1]
                IN  /\ [ev |-> "take", at |-> b, dir |-> opposite(d),
                        val |-> start[b].give_value[1]] \in log
                    /\ nodes[b].give = "None"
                    /\ nodes[b].last = opposite(d)
                    /\ nodes[a].last = d

\* ------------------------------------------------------------------------ C4
\* C4: every handoff is consumed in the tick it is offered as Given.  When
\* post_post_handle_give is about to clear the port of a compute producer, the
\* re-ticked partner has taken the value: give_value is None.
C4_HandoffConsumed ==
    (AfterRetick /\ order[idx] \in Computes) => nodes[order[idx]].give_value = None

\* ------------------------------------------------------------------------ C5
RuntimeAborts ==
    { "InstructionNode::handle_give: instructions[ptr] is out of bounds",
      "InstructionNode::handle_give: unreachable!()",
      "console out: take().unwrap() on None" }

\* C5: no runtime abort.  While console input is available, no sequence of
\* global ticks of a grid built from a validated program reaches a fatal
\* state: handle_give neither reaches unreachable!() nor indexes instructions
\* out of range, and a console writer never unwraps an empty value.
C5_NoRuntimeAbort == fatal \notin RuntimeAborts

\* ------------------------------------------------------------------------ C6
\* C6 as claimed: after phase C of every global tick, 0 <= ptr < max(1, len).
C6_PtrInRange ==
    TickDone => \A p \in Computes :
        0 <= nodes[p].ptr /\ nodes[p].ptr < Max(1, Len(nodes[p].instructions))

HasJumpRelative(n) ==
    \E i \in 1..Len(n.instructions) : n.instructions[i].op = "JumpRelative"

\* C6 as amended: after phase C of every global tick, 0 <= ptr <= len; only a
\* program with a jro can leave ptr higher, at most at len + 998.  (The wrap to
\* 0 happens at the start of the node's next step.)
C6_PtrBound ==
    TickDone => \A p \in Computes :
        /\ 0 <= nodes[p].ptr
        /\ nodes[p].ptr <= Len(nodes[p].instructions)
                             + (IF HasJumpRelative(nodes[p]) THEN NumberMax - 1 ELSE 0)

\* A tick has ended with a node's ptr one past its last instruction.
C6_PtrAtEnd ==
    TickDone /\ \E p \in Computes :
        nodes[p].instructions # <<>> /\ nodes[p].ptr = Len(nodes[p].instructions)

\* ------------------------------------------------------------------------ C7
\* C7: a compute node is frozen while its port is busy.  No step taken while
\* give is Direction(d), Any or Given changes the node's ptr, accumulator or
\* backup.
C7_FrozenWhileBusy ==
    [][\A p \in Computes : nodes[p].give # "None" =>
          /\ nodes'[p].ptr = nodes[p].ptr
          /\ nodes'[p].accumulator = nodes[p].accumulator
          /\ nodes'[p].backup = nodes[p].backup]_vars

\* The first loop has just ticked a compute node whose port is busy.
C7_TickedWhileBusy ==
    /\ phase = "A"
    /\ idx > 1
    /\ order[idx - 1] \in Computes
    /\ nodes[order[idx - 1]].give \in Direction \cup {"Any"}
    /\ start[order[idx - 1]].give = nodes[order[idx - 1]].give

\* ------------------------------------------------------------------------ C8
\* C8: giving_to implies a pending offer.  In every reachable state, a node
\* whose giving_to is set has give in {Any, Direction(d), Given}.
C8_GivingToHasOffer ==
    \A p \in Positions : nodes[p].giving_to # "None" => nodes[p].give # "None"

\* A compute node has handed its value over in this tick and its port has been
\* cleared: give is None and giving_to is unset.
C8_ClearedAfterHandoff ==
    \E p \in Computes :
        /\ Takers(p) # {}
        /\ Contenders(p) # {}
        /\ nodes[p].give = "None"
        /\ nodes[p].giving_to = "None"

\* ------------------------------------------------------------------------ C9
\* C9: Given carries a value.  Between two global ticks every node whose give
\* is Given has a give_value; and when post_handle_give has just flipped a
\* compute node to Given, its give_value is Some.
C9_GivenCarriesValue ==
    /\ AtBoundary => \A p \in Positions :
          nodes[p].give = "Given" => nodes[p].give_value # None
    /\ (BeforeRetick /\ order[idx] \in Computes) =>
          /\ nodes[order[idx]].give = "Given"
          /\ nodes[order[idx]].give_value # None

\* post_handle_give has just flipped a compute node to Given.
C9_JustGiven ==
    BeforeRetick /\ order[idx] \in Computes /\ nodes[order[idx]].give = "Given"

\* ----------------------------------------------------------------------- C10
\* C10: link symmetry.  After any sequence of successful add_node calls, for
\* every two nodes A at p and B at p+d, A's d-slot refers to B and B's
\* opposite(d)-slot refers to A; and every slot that is set refers to the node
\* at the adjacent position in that direction.
C10_LinkSymmetry ==
    fatal = "" =>
        \A p \in Positions : \A d \in Direction :
            /\ Shift(p, d) \in Positions =>
                  /\ nodes[p].slot[d] = Some(Shift(p, d))
                  /\ nodes[Shift(p, d)].slot[opposite(d)] = Some(p)
            /\ nodes[p].slot[d] # None =>
                  /\ Shift(p, d) \in Positions
                  /\ nodes[p].slot[d] = Some(Shift(p, d))

\* Three nodes have been added, the one at (0,1) before the one at (0,0) below
\* it or after it, and the two are linked.
C10_CornerLinked ==
    /\ pending = {}
    /\ Positions = {P00, P10, P01}
    /\ nodes[P00].slot["Up"] = Some(P01)
    /\ nodes[P01].slot["Down"] = Some(P00)
    /\ nodes[P00].slot["Right"] = Some(P10)

\* ----------------------------------------------------------------------- C11
PlacementConflict == "TIS::add_node: node already exists at position"

\* C11: placement conflict.  add_node for a position that already holds a node
\* ends in a fatal error and leaves the node map, with every node's neighbour
\* slots, as it was; every node of the map sits at the position it is stored
\* under, so no position holds two nodes.
C11_PlacementConflictIsFatal ==
    /\ [](\A p \in Positions : nodes[p].position = p)
    /\ [][\A def \in pending :
            (phase = "build" /\ fatal = "" /\ def.position \in Positions
               /\ pending' = pending \ {def})
            => (fatal' = PlacementConflict /\ nodes' = nodes)]_vars

\* The second definition for (0,0) was refused after (1,0) had been linked
\* with the first.
C11_Refused ==
    /\ fatal = PlacementConflict
    /\ Positions = {P00, P10}
    /\ nodes[P10].slot["Left"] = Some(P00)

\* ----------------------------------------------------------------------- C12
\* The integer x brought into [-999, 999].
Saturated(x) == IF x > 999 THEN 999 ELSE IF x < -999 THEN -999 ELSE x

\* C12: saturating arithmetic.  For Numbers a and b, a+b, a-b, -a, a+=b and
\* a-=b return the mathematical result brought into [-999, 999], with no i16
\* overflow on the way (no panic in a build that checks overflow); and every
\* compute node's accumulator and backup are in [-999, 999] in every reachable
\* state.
C12_SaturatingArithmetic ==
    /\ (Returned("add") \/ Returned("add_assign")) =>
          call.ret = Some(Saturated(call.args[1] + call.args[2]))
    /\ (Returned("sub") \/ Returned("sub_assign")) =>
          call.ret = Some(Saturated(call.args[1] - call.args[2]))
    /\ Returned("neg") => call.ret = Some(Saturated(0 - call.args[1]))
    /\ \A p \in Computes :
          /\ nodes[p].accumulator \in -999..999
          /\ nodes[p].backup \in -999..999

\* 999 += 999 has returned.
C12_SumAtTheTop == Returned("add_assign") /\ call.args = <<999, 999>>

\* ----------------------------------------------------------------------- C13
\* C13: saturation round-trip.  For every integer n of a supported integer
\* type, Number::from(n).value() is n brought into [-999, 999].
C13_SaturationRoundTrip ==
    (Returned("from_i8") \/ Returned("from_u8") \/ Returned("from_signed")
       \/ Returned("from_unsigned"))
    => call.ret = Some(Saturated(call.args[1]))

\* Number::from(65535u16) has returned.
C13_FromU16Max == Returned("from_unsigned") /\ call.args = <<65535>>

\* ----------------------------------------------------------------------- C14
IsDigits(t) == t # <<>> /\ \A i \in 1..Len(t) : t[i] \in 48..57

\* An optional leading '-' followed by one or more decimal digits.
IsNumeral(t) == IsDigits(t) \/ (t # <<>> /\ t[1] = 45 /\ IsDigits(Tail(t)))

RECURSIVE Magnitude(_)
Magnitude(t) == IF t = <<>> THEN 0 ELSE Magnitude(SubSeq(t, 1, Len(t) - 1)) * 10 + (t[Len(t)] - 48)

\* The integer a numeral denotes.
Denoted(t) == IF t[1] = 45 THEN 0 - Magnitude(Tail(t)) ELSE Magnitude(t)

\* C14: Number parsing.  Number::from_str succeeds exactly on the strings made
\* of an optional leading '-' followed by one or more decimal digits, and
\* returns the denoted integer brought into [-999, 999]; every other string,
\* the empty string and a lone '-' included, is rejected with an error.
C14_NumberParsing ==
    Returned("from_str") =>
        call.ret = Some(IF IsNumeral(call.args[1])
                        THEN Some(Saturated(Denoted(call.args[1])))
                        ELSE None)

\* ----------------------------------------------------------------------- C15
\* The next step is a call of tick on the node at p: by the first loop, or by
\* the third loop for the partner of a node that has just become Given.
TickStep(p) ==
    /\ fatal = ""
    /\ \/ phase = "A" /\ order[idx] = p
       \/ phase = "C" /\ given /\ partner = Some(p)

\* A tick of n gets as far as executing an instruction.
Runs(n) == n.instructions # <<>> /\ n.give = "None"

\* The index of the instruction a tick of n executes.
At(n) == IF n.ptr >= Len(n.instructions) THEN 0 ELSE n.ptr

\* The port calls made by the step.
Fresh == IF phase = "A" /\ idx = 1 THEN log' ELSE log' \ log

\* The values the node at p takes from its neighbours in the step.
TakenBy(p) == {e.val : e \in {f \in Fresh : f.ev = "take" /\ Shift(f.at, f.dir) = p}}

\* The source is a port: its value has to come from a neighbour.
IsPort(n, src) ==
    /\ src.isReg
    /\ \/ src.reg \in Direction \cup {"Any"}
       \/ src.reg = "Last" /\ n.last # "None"

\* The value of a source that is not a port.
Immediate(n, src) ==
    IF ~src.isReg THEN src.num
    ELSE IF src.reg = "Accumulator" THEN n.accumulator
    ELSE 0

JumpRelativeStep(p) ==
    LET n == nodes[p]
        src == Current(n).src
        target(v) == IF At(n) + v < 0 THEN 0 ELSE At(n) + v
    IN  IF IsPort(n, src)
        THEN IF TakenBy(p) = {} THEN nodes'[p].ptr = At(n)
             ELSE TakenBy(p) = {CHOOSE v \in TakenBy(p) : TRUE}
                  /\ \A v \in TakenBy(p) : nodes'[p].ptr = target(v)
        ELSE nodes'[p].ptr = target(Immediate(n, src))

\* C15: jump-relative.  A tick that executes the jro at index ptr with a source
\* that does not block leaves ptr at max(0, ptr + value), without a further
\* increment; with a port source that blocks, ptr stays at the jro; and a tick
\* that finds ptr >= len(instructions) executes the instruction at index 0.
C15_JumpRelative ==
    [][\A p \in Computes :
          (TickStep(p) /\ Runs(nodes[p]) /\ fatal' = "") =>
              /\ Current(nodes[p]).op = "JumpRelative" => JumpRelativeStep(p)
              /\ nodes[p].ptr >= Len(nodes[p].instructions) =>
                    nodes' = Execute([World EXCEPT !.nodes[p].ptr = 0], p,
                                     nodes[p].instructions[1]).nodes]_vars

\* A tick has ended in which `jro -5` was executed at index 0, and ptr is 0.
C15_ClampedAtZero ==
    /\ TickDone
    /\ P00 \in Computes
    /\ nodes[P00].instructions = <<JumpRelative(Num(-5)), Noop, Noop>>
    /\ nodes[P00].ptr = 0

\* ----------------------------------------------------------------------- C16
\* The integers printed so far, in order.
IsLine(o) == o.kind = "line"

Printed == [i \in 1..Len(SelectSeq(out, IsLine)) |-> SelectSeq(out, IsLine)[i].v]

\* The text of a line of input without its line end.
Text(line) == SubSeq(line, 1, Len(line) - 1)

\* Every line of input is an integer; the integers typed, and how many of them
\* have been read.
AllIntegers == \A i \in 1..Len(typed) : IsNumeral(Text(typed[i]))

Typed == [i \in 1..Len(typed) |-> Denoted(Text(typed[i]))]

Read == Len(typed) - Len(stdin)

Prefix(a, b) == Len(a) <= Len(b) /\ \A i \in 1..Len(a) : a[i] = b[i]

\* C16 as claimed: integer echo.  For every input sequence of integers, at
\* every moment the sequence printed is a prefix of the input sequence, and
\* every integer read from the input is eventually printed.
C16_IntegerEcho ==
    /\ [](AllIntegers => Prefix(Printed, Typed))
    /\ \A k \in 1..2 : (AllIntegers /\ Read >= k) ~> (Len(Printed) >= k)

\* C16 as amended: the sequence printed is a prefix of the input sequence with
\* every integer brought into [-999, 999], and every integer read from the
\* input is eventually printed.
C16_SaturatedEcho ==
    /\ [](AllIntegers => Prefix(Printed, [i \in 1..Len(Typed) |-> Saturated(Typed[i])]))
    /\ \A k \in 1..2 : (AllIntegers /\ Read >= k) ~> (Len(Printed) >= k)

\* "42" and "-7" were typed and both have been printed.
C16_BothEchoed == AllIntegers /\ Printed = <<42, -7>>


\* ---------------------------------------------------------------------- C17
\* The three compute nodes of the tie-break scenario have been placed: A at
\* (0,0) runs `mov 7, any`, B at (1,0) runs `mov left, acc`, C at (0,1) runs
\* `mov down, acc`.
TieBreakScenario ==
    /\ pending = {}
    /\ Positions = {P00, P10, P01}
    /\ \A p \in Positions : nodes[p].kind = "InstructionNode"
    /\ nodes[P00].instructions = <<Move(Num(7), "Any")>>
    /\ nodes[P10].instructions = <<Move(Reg("Left"), "Accumulator")>>
    /\ nodes[P01].instructions = <<Move(Reg("Down"), "Accumulator")>>

\* k global ticks have been completed and the next has not begun.
After(k) == AtBoundary /\ ticks = k

TieBreakResult ==
    /\ nodes[P01].accumulator = 7
    /\ nodes[P10].accumulator = 0
    /\ nodes[P00].last = "Up"

\* C17, as stated: in the tie-break scenario the result after one global tick
\* is C.acc = 7, B.acc = 0 and A.last = Up.
C17_TieBreakAfterOneTick == (TieBreakScenario /\ After(1)) => TieBreakResult

\* C17, amended: after one global tick A offers 7 on Any and no value has
\* moved; the result after two global ticks is C.acc = 7, B.acc = 0 and
\* A.last = Up, whatever the order in which the nodes are visited.
C17_TieBreakAfterTwoTicks ==
    /\ (TieBreakScenario /\ After(1)) =>
           /\ nodes[P00].give = "Any"
           /\ nodes[P00].give_value = Some(7)
           /\ nodes[P00].last = "None"
           /\ nodes[P01].accumulator = 0
           /\ nodes[P10].accumulator = 0
    /\ (TieBreakScenario /\ After(2)) => TieBreakResult

C17_BoundToUp == TieBreakScenario /\ After(2) /\ TieBreakResult /\ order = <<P00, P01, P10>>


\* ---------------------------------------------------------------------- C18
\* The producer and the consumer have been placed: A at (0,0) runs
\* `mov 5, any`, B at (1,0) runs `mov left, acc`.
ProducerConsumer ==
    /\ pending = {}
    /\ Positions = {P00, P10}
    /\ nodes[P00].instructions = <<Move(Num(5), "Any")>>
    /\ nodes[P10].instructions = <<Move(Reg("Left"), "Accumulator")>>

\* A global tick has ended, and in it B took a value from A for the first
\* time: B's accumulator had its initial value when the tick began.
FirstReceived ==
    /\ TickDone
    /\ Takers(P00) # {}
    /\ start[P10].accumulator = 0

\* C18: at the end of the global tick in which B first receives a value,
\* A.last = Right, B.acc = 5, A.ptr = 1, B.ptr = 1 and both ports are None.
C18_ProducerConsumer ==
    (ProducerConsumer /\ FirstReceived) =>
        /\ nodes[P00].last = "Right"
        /\ nodes[P10].accumulator = 5
        /\ nodes[P00].ptr = 1
        /\ nodes[P10].ptr = 1
        /\ nodes[P00].give = "None"
        /\ nodes[P10].give = "None"
        /\ nodes[P00].giving_to = "None"
        /\ nodes[P00].give_value = None

C18_Transferred == ProducerConsumer /\ FirstReceived /\ nodes[P10].accumulator = 5 /\ ticks = 2


\* ---------------------------------------------------------------------- C19
\* The node the third loop is at has been flipped to Given for a
\* ConsoleOutNode, which is about to be re-ticked / has been re-ticked.
HandedToConsoleOut == BeforeRetick /\ nodes[partner[1]].kind = "ConsoleOutNode"

ConsoleOutServed ==
    /\ AfterRetick
    /\ nodes[order[idx]].giving_to \in Direction
    /\ Shift(order[idx], nodes[order[idx]].giving_to) \in Positions
    /\ nodes[Shift(order[idx], nodes[order[idx]].giving_to)].kind = "ConsoleOutNode"

\* The producer at q has a value to hand over: a compute node's staged value,
\* an input node's next character or number.
Hands(q) == give_value(World, q).fatal = "" /\ give_value(World, q).nodes[q].give_value # None

HandedValue(q) == give_value(World, q).nodes[q].give_value[1]

\* The bytes a ConsoleOutNode has written so far.
IsByte(o) == o.kind = "byte"

Bytes(o) == [i \in 1..Len(SelectSeq(o, IsByte)) |-> SelectSeq(o, IsByte)[i].v]

\* The port of a producer at rest: None for a compute node; an input node
\* rests at Any (C20).
AtRest(n) == IF n.kind \in InputKinds THEN "Any" ELSE "None"

\* C19: every value v handed to a console_out node is consumed: the re-tick
\* of the console_out node takes it without an error, the output grows by the
\* one byte v iff 0 <= v < 256 and is unchanged otherwise, and the producer's
\* clean-up then returns its port to rest.
C19_ByteWriterDropRule ==
    /\ [][(HandedToConsoleOut /\ Hands(order[idx])) =>
            /\ fatal' = ""
            /\ nodes'[order[idx]].give_value = None
            /\ Bytes(out') =
                   IF 0 <= HandedValue(order[idx]) /\ HandedValue(order[idx]) < ByteLimit
                   THEN Append(Bytes(out), HandedValue(order[idx]))
                   ELSE Bytes(out)]_vars
    /\ [][ConsoleOutServed =>
            /\ nodes'[order[idx]].give = AtRest(nodes[order[idx]])
            /\ nodes'[order[idx]].giving_to = "None"]_vars


\* ---------------------------------------------------------------------- C20
InputNodes == {p \in Positions : nodes[p].kind \in InputKinds}

\* C20: an input node has give = Any and no giving_to from its construction
\* to the first global tick, its give is Any at every tick boundary, and the
\* clean-up after each of its handoffs in the third loop leaves give = Any
\* and giving_to unset.
C20_InputNodesOfferAny ==
    /\ [](\A p \in InputNodes :
            /\ (phase = "build" \/ (AtBoundary /\ ticks = 0)) =>
                   nodes[p].give = "Any" /\ nodes[p].giving_to = "None"
            /\ AtBoundary => nodes[p].give = "Any"
            /\ nodes[p].give \in {"Any", "Given"})
    /\ [][(AfterRetick /\ order[idx] \in InputNodes) =>
            /\ nodes'[order[idx]].give = "Any"
            /\ nodes'[order[idx]].giving_to = "None"]_vars

\* A global tick has ended in which an input node handed a value over.
C20_OfferedAgain ==
    /\ TickDone
    /\ \E p \in InputNodes : Takers(p) # {} /\ nodes[p].give = "Any" /\ nodes[p].giving_to = "None"


\* ---------------------------------------------------------------------- C21
\* The values taken so far from the node at q, in order.
TakenFrom(q) ==
    LET IsFromQ(e) == e[1] = q
    IN  [i \in 1..Len(SelectSeq(taken, IsFromQ)) |-> SelectSeq(taken, IsFromQ)[i][2]]

\* The lines one after the other.
RECURSIVE Flat(_)
Flat(lines) == IF lines = <<>> THEN <<>> ELSE Head(lines) \o Flat(Tail(lines))

\* How many of the lines are needed to supply n values, one per byte.
RECURSIVE LinesFor(_, _)
LinesFor(lines, n) ==
    IF n <= 0 \/ lines = <<>> THEN 0 ELSE 1 + LinesFor(Tail(lines), n - Len(Head(lines)))

ByteReaders == {q \in Positions : nodes[q].kind = "ConsoleInNode"}

\* C21: the values taken from a console_in node are the bytes of the input
\* lines in their order, each once, and a line has been read from the input
\* only if a byte of it was needed.
C21_ByteReaderFifo ==
    \A q \in ByteReaders :
        /\ Prefix(TakenFrom(q), Flat(typed))
        /\ Read = LinesFor(typed, Len(TakenFrom(q)))


\* ---------------------------------------------------------------------- C22
Ports == Direction \cup {"Any", "Last"}

\* Every Move of n that writes to a port writes a literal, so that a value
\* found in n's port names the Moves that can have written it.
WritesLiterals(n) ==
    \A i \in 1..Len(n.instructions) :
        (n.instructions[i].op = "Move" /\ n.instructions[i].dst \in Ports) =>
            ~n.instructions[i].src.isReg

\* The destinations of the Moves of n that write the literal v to a port.
WrittenTo(n, v) ==
    {n.instructions[i].dst : i \in {j \in 1..Len(n.instructions) :
        /\ n.instructions[j].op = "Move"
        /\ n.instructions[j].dst \in Ports
        /\ n.instructions[j].src = Num(v)}}

\* The value in the port of the compute node at q was written by a Move to
\* the direction d and by no other Move.
DirectedValue(q, d) ==
    /\ q \in Computes
    /\ nodes[q].give_value # None
    /\ WritesLiterals(nodes[q])
    /\ WrittenTo(nodes[q], nodes[q].give_value[1]) = {d}

\* C22: a value written by a Move to Direction(d) is taken only by the
\* neighbour in direction d, and while the port offers Direction(d) a reader
\* registers with it only from direction d.
C22_DirectedOffersExclusive ==
    /\ [][\A e \in Fresh : \A d \in Direction :
            (e.ev = "take" /\ DirectedValue(e.at, d)) => e.dir = d]_vars
    /\ [][\A e \in Fresh :
            (e.ev = "set_giving_to" /\ e.at \in Computes /\ nodes[e.at].give \in Direction) =>
                e.dir = nodes[e.at].give]_vars


\* ---------------------------------------------------------------------- C23
\* The tick of the node at p that is about to happen gets a value from its
\* source: the source is not a port, or a neighbour hands a value over.
Yields(p) == ~IsPort(nodes[p], Current(nodes[p]).src) \/ TakenBy(p) # {}

\* C23: a tick that executes `mov X, nil` with a source that yields a value
\* changes nothing in the executing node except ptr, which becomes the index
\* of the Move plus one.
C23_NilDestination ==
    [][\A p \in Computes :
          (/\ TickStep(p)
           /\ Runs(nodes[p])
           /\ Current(nodes[p]).op = "Move"
           /\ Current(nodes[p]).dst = "Nil"
           /\ Yields(p)) =>
              nodes'[p] = [nodes[p] EXCEPT !.ptr = At(nodes[p]) + 1]]_vars

\* `mov left, nil` and `mov any, nil` have each discarded a value received
\* from the neighbour.
C23_Discarded ==
    /\ P10 \in Computes
    /\ nodes[P10].instructions = <<Move(Reg("Left"), "Nil"), Move(Reg("Any"), "Nil")>>
    /\ TakenFrom(P00) = <<5, 6>>
    /\ nodes[P10].ptr = 2
    /\ nodes[P10].accumulator = 3
    /\ nodes[P10].backup = 4


\* ---------------------------------------------------------------------- C24
\* The next step is post_handle_give on the node at p, whose port is Any and
\* has a receiver bound.
BindsAny(p) ==
    /\ phase = "C"
    /\ ~given
    /\ fatal = ""
    /\ order[idx] = p
    /\ nodes[p].give = "Any"
    /\ nodes[p].giving_to \in Direction

\* C24: a compute node's last changes only in post_handle_give of the third
\* loop when its port is Any and a receiver is bound, and it becomes
\* giving_to then; no other step changes it: not a directed write, not a
\* write through Last, not a read.
C24_LastOnlyOnAnyWrite ==
    [][\A p \in Computes :
          /\ nodes'[p].last # nodes[p].last => BindsAny(p)
          /\ BindsAny(p) => nodes'[p].last = nodes[p].giving_to]_vars

\* A global tick has ended in which one compute node handed a value over
\* through Any and recorded the direction, and another handed one over
\* through a direction and recorded nothing.
C24_LastRecorded ==
    /\ TickDone
    /\ \E p \in Computes : Takers(p) # {} /\ Takers(p) = {nodes[p].last}
    /\ \E p \in Computes : Takers(p) # {} /\ nodes[p].last = "None"


\* ---------------------------------------------------------------------- C25
\* The first loop is about to tick the compute node at p, and the tick will
\* execute an instruction with the operation op.
Executes(p, op) ==
    /\ phase = "A"
    /\ fatal = ""
    /\ order[idx] = p
    /\ Runs(nodes[p])
    /\ Current(nodes[p]).op = op

\* The registers of a node.
Registers(n) == <<n.accumulator, n.backup>>

\* C25: a tick that executes `swp` exchanges accumulator and backup and
\* changes nothing else but ptr; and when the next instruction is a `swp`
\* too, the tick after it restores both registers.
C25_SwapInvolution ==
    /\ [][\A p \in Computes : Executes(p, "Swap") =>
            nodes'[p] = [nodes[p] EXCEPT !.accumulator = nodes[p].backup,
                                         !.backup = nodes[p].accumulator,
                                         !.ptr = At(nodes[p]) + 1]]_vars
    /\ [](\A p \in Computes :
            (Executes(p, "Swap") /\ Current(tick(World, p).nodes[p]).op = "Swap") =>
                Registers(tick(tick(World, p), p).nodes[p]) = Registers(nodes[p]))

\* Two `swp` have been executed and the registers are 999 and -4 again.
C25_SwappedTwice ==
    /\ P00 \in Computes
    /\ nodes[P00].instructions = <<Swap, Swap, Save, Save>>
    /\ nodes[P00].ptr = 2
    /\ ticks = 2
    /\ Registers(nodes[P00]) = <<999, -4>>

\* ---------------------------------------------------------------------- C26
\* C26: a tick that executes `sav` sets backup to accumulator and changes
\* nothing else but ptr; and when the next instruction is a `sav` too, the
\* tick after it changes nothing but ptr.
C26_SaveIdempotence ==
    /\ [][\A p \in Computes : Executes(p, "Save") =>
            nodes'[p] = [nodes[p] EXCEPT !.backup = nodes[p].accumulator,
                                         !.ptr = At(nodes[p]) + 1]]_vars
    /\ [](\A p \in Computes :
            (Executes(p, "Save") /\ Current(tick(World, p).nodes[p]).op = "Save") =>
                /\ tick(tick(World, p), p).nodes[p] =
                       [tick(World, p).nodes[p] EXCEPT !.ptr = @ + 1]
                /\ Registers(tick(tick(World, p), p).nodes[p]) =
                       <<nodes[p].accumulator, nodes[p].accumulator>>)

\* Two `sav` have been executed on registers that differed, and both hold the
\* accumulator's value.
C26_SavedTwice ==
    /\ P00 \in Computes
    /\ nodes[P00].instructions = <<Swap, Swap, Save, Save>>
    /\ nodes[P00].ptr = 4
    /\ ticks = 4
    /\ Registers(nodes[P00]) = <<-999, -999>>
    /\ start[P00].backup = -999


\* ---------------------------------------------------------------------- C27
\* The second loop is about to call handle_give on the compute node at p,
\* which has a staged value and a free port.
FindsStaged(p) ==
    /\ phase = "B"
    /\ fatal = ""
    /\ order[idx] = p
    /\ p \in Computes
    /\ nodes[p].give = "None"
    /\ nodes[p].give_value # None

\* The instruction is a Move that stages v in the port of n.
Stages(n, ins, v) ==
    /\ ins.op = "Move"
    /\ ins.dst \in Direction \cup {"Any"} \/ (ins.dst = "Last" /\ n.last # "None")
    /\ ~ins.src.isReg => ins.src.num = v

\* C27: whenever handle_give finds a compute node with give = None and a
\* staged value, ptr < len(instructions) and instructions[ptr] is the Move
\* that staged the value: a Move to a direction, to Any, or to Last with last
\* set, and of that value if its source is a literal.
C27_StagedValueProvenance ==
    \A p \in Positions :
        FindsStaged(p) =>
            /\ nodes[p].ptr < Len(nodes[p].instructions)
            /\ Stages(nodes[p], nodes[p].instructions[nodes[p].ptr + 1], nodes[p].give_value[1])


\* ---------------------------------------------------------------------- C28
\* The program has no jump: every instruction it completes adds one to ptr.
JumpFree(n) ==
    \A i \in 1..Len(n.instructions) : n.instructions[i].op \notin JumpOps \cup {"JumpRelative"}

\* C28: a compute node completes at most one instruction in a global tick,
\* the first loop's step, the second loop's commit and the re-ticks of the
\* third loop taken together.  For a program without jumps: at no point of a
\* global tick is ptr more than one past the index at which the tick found
\* the node (a node that has not run yet keeps the ptr it began with).
C28_OneInstructionPerTick ==
    \A p \in Computes :
        (p \in DOMAIN start /\ JumpFree(nodes[p])) =>
            \/ nodes[p].ptr = start[p].ptr
            \/ nodes[p].ptr <= At(start[p]) + 1


\* ---------------------------------------------------------------------- C29
\* The nodes that have taken a value from a neighbour in this global tick.
Received == {Shift(e.at, e.dir) : e \in {f \in log : f.ev = "take"}}

\* C29: re-ticks never cascade.  In the third loop a re-tick leaves the
\* partner's give as it was, and None if the partner received a value; a
\* node that has received a value in this global tick keeps its port closed
\* for the rest of the tick and nothing is taken from it; a closed port of a
\* compute node is opened by handle_give in the second loop only, so what a
\* node receives in tick t is offered no earlier than the second loop of
\* tick t+1.
C29_RetickNeverCascades ==
    [][\A q \in Computes :
          /\ (phase = "C" /\ TickStep(q)) => nodes'[q].give = nodes[q].give
          /\ (phase = "C" /\ TakenBy(q) # {}) => nodes'[q].give = "None"
          /\ (phase = "C" /\ q \in Received) =>
                 /\ nodes'[q].give = "None"
                 /\ \A e \in Fresh : ~(e.ev = "take" /\ e.at = q)
          /\ (nodes[q].give = "None" /\ nodes'[q].give # "None") => phase = "B"]_vars

\* Witness for C29: a re-ticked compute node has received a value and staged
\* it for a port, which stays closed.
C29_StagedInRetick ==
    /\ AfterRetick
    /\ \E q \in Computes :
          /\ q \in Received
          /\ nodes[q].give = "None"
          /\ nodes[q].give_value # None
          /\ \E d \in Direction : Shift(q, d) \in Positions \ {order[idx]}


\* ---------------------------------------------------------------------- C30
\* The next step is a tick of the compute node at p that reads from Any.
ReadsAny(p) ==
    /\ TickStep(p)
    /\ p \in Computes
    /\ Runs(nodes[p])
    /\ Current(nodes[p]).op \in {"Move", "Add", "Subtract", "JumpRelative"}
    /\ Current(nodes[p]).src.isReg
    /\ Current(nodes[p]).src.reg = "Any"

\* The neighbour of p in direction d offers to p or holds a value to take.
Offers(p, d) ==
    /\ Shift(p, d) \in Positions
    /\ nodes[Shift(p, d)].give \in {"Any", "Given", opposite(d)}

\* The first direction, in the order Up, Left, Right, Down, in which a
\* neighbour of p offers.
FirstOffer(p) ==
    LET offering == {i \in 1..Len(AllDirections) : Offers(p, AllDirections[i])}
    IN  IF offering = {} THEN "None"
        ELSE AllDirections[CHOOSE i \in offering : \A j \in offering : i <= j]

\* C30: one read from Any by a compute node touches at most one neighbour,
\* the first in the order Up, Left, Right, Down that is Given, Any or
\* Direction toward the reader.  If that neighbour is Given its value is
\* taken; otherwise giving_to is set on it (the smaller direction if it
\* offers Any and is already bound) and the reader gets no value and stays
\* where it is.  No other neighbour changes.
C30_AnyReaderTouchesOne ==
    [][\A p \in Positions :
          (ReadsAny(p) /\ fatal' = "") =>
              LET d == FirstOffer(p)
                  q == Shift(p, d)
                  toward == opposite(d)
              IN  IF d = "None"
                  THEN /\ \A x \in Positions \ {p} : nodes'[x] = nodes[x]
                       /\ nodes'[p] = [nodes[p] EXCEPT !.ptr = At(nodes[p])]
                  ELSE /\ \A x \in Positions \ {p, q} : nodes'[x] = nodes[x]
                       /\ nodes'[q].give = nodes[q].give
                       /\ IF nodes[q].give = "Given"
                          THEN /\ nodes'[q].giving_to = nodes[q].giving_to
                               /\ nodes'[q].give_value = None
                          ELSE /\ nodes'[q].give_value = nodes[q].give_value
                               /\ nodes'[q].giving_to =
                                      IF nodes[q].give = "Any" /\ nodes[q].giving_to # "None"
                                      THEN DirectionMin(nodes[q].giving_to, toward)
                                      ELSE toward
                               /\ TakenBy(p) = {}
                               /\ nodes'[p] = [nodes[p] EXCEPT !.ptr = At(nodes[p])]]_vars

\* Witness for C30: a compute node has just read from Any with two
\* neighbours offering to it; the first one is bound to it, the second one
\* is not bound at all.
C30_BoundToFirstOnly ==
    /\ phase = "A"
    /\ idx > 1
    /\ fatal = ""
    /\ LET p == order[idx - 1]
       IN  /\ p \in Computes
           /\ Runs(nodes[p])
           /\ Current(nodes[p]).op = "Move"
           /\ Current(nodes[p]).src.isReg
           /\ Current(nodes[p]).src.reg = "Any"
           /\ \E i, j \in 1..Len(AllDirections) :
                 /\ i < j
                 /\ Offers(p, AllDirections[i])
                 /\ Offers(p, AllDirections[j])
                 /\ nodes[Shift(p, AllDirections[i])].giving_to = opposite(AllDirections[i])
                 /\ nodes[Shift(p, AllDirections[j])].giving_to = "None"


\* ---------------------------------------------------------------------- C31
\* The next step is a tick of the compute node at p whose instruction reads a
\* port, and the read returns no value.
BlockedRead(p) ==
    /\ TickStep(p)
    /\ p \in Computes
    /\ Runs(nodes[p])
    /\ Current(nodes[p]).op \in {"Move", "Add", "Subtract", "JumpRelative"}
    /\ IsPort(nodes[p], Current(nodes[p]).src)
    /\ TakenBy(p) = {}
    /\ fatal' = ""

\* C31 as stated: a blocked read changes none of the reader's ptr,
\* accumulator, backup, last, give, giving_to and give_value.
C31_BlockedReadChangesNothing ==
    [][\A p \in Positions :
          BlockedRead(p) =>
              /\ nodes'[p].ptr = nodes[p].ptr
              /\ nodes'[p].accumulator = nodes[p].accumulator
              /\ nodes'[p].backup = nodes[p].backup
              /\ nodes'[p].last = nodes[p].last
              /\ nodes'[p].give = nodes[p].give
              /\ nodes'[p].giving_to = nodes[p].giving_to
              /\ nodes'[p].give_value = nodes[p].give_value]_vars

\* C31, amended: a blocked read changes nothing of the reader but ptr, and
\* ptr only when it is past the last instruction: the tick resets it to 0
\* before it reads.  ptr is never advanced.
C31_BlockedReadKeepsInstruction ==
    [][\A p \in Positions :
          BlockedRead(p) => nodes'[p] = [nodes[p] EXCEPT !.ptr = At(nodes[p])]]_vars

\* Witness for C31: in the first loop a compute node that began the tick past
\* the end of its program has been reset to its first instruction, a read
\* from a port, and has obtained nothing.
C31_BlockedAfterWrap ==
    /\ phase = "A"
    /\ idx > 1
    /\ fatal = ""
    /\ LET p == order[idx - 1]
       IN  /\ p \in Computes
           /\ p \in DOMAIN start
           /\ start[p].give = "None"
           /\ start[p].ptr = Len(start[p].instructions)
           /\ nodes[p] = [start[p] EXCEPT !.ptr = 0]
           /\ Current(nodes[p]).op \in {"Move", "Add", "Subtract", "JumpRelative"}
           /\ IsPort(nodes[p], Current(nodes[p]).src)


\* ---------------------------------------------------------------------- C32
\* The world in which the instruction at index i of the node at p writes to
\* the direction d instead.
Retarget(w, p, i, d) == [w EXCEPT !.nodes[p].instructions[i + 1].dst = d]

\* The two worlds agree on everything but the programs of the nodes.
SameButPrograms(a, b) ==
    /\ DOMAIN a.nodes = DOMAIN b.nodes
    /\ \A x \in DOMAIN a.nodes :
           [a.nodes[x] EXCEPT !.instructions = <<>>] = [b.nodes[x] EXCEPT !.instructions = <<>>]
    /\ [a EXCEPT !.nodes = <<>>] = [b EXCEPT !.nodes = <<>>]

\* The next step is a tick of the compute node at p whose instruction is a
\* Move to Last that obtains its value.
WritesLast(p) ==
    /\ TickStep(p)
    /\ p \in Computes
    /\ Runs(nodes[p])
    /\ Current(nodes[p]).op = "Move"
    /\ Current(nodes[p]).dst = "Last"
    /\ Yields(p)
    /\ fatal' = ""

\* The next step is handle_give on the compute node at p, which has staged a
\* value with a Move to Last.
CommitsLast(p) ==
    /\ phase = "B"
    /\ fatal = ""
    /\ order[idx] = p
    /\ p \in Computes
    /\ nodes[p].give = "None"
    /\ nodes[p].give_value # None
    /\ nodes[p].ptr < Len(nodes[p].instructions)
    /\ nodes[p].instructions[nodes[p].ptr + 1].op = "Move"
    /\ nodes[p].instructions[nodes[p].ptr + 1].dst = "Last"
    /\ nodes[p].last # "None"

\* C32: a Move to Last on a node whose last is unset discards the value: the
\* step leaves give and give_value alone and advances ptr by one.  On a node
\* whose last is d the tick and the later handle_give do what they would do
\* had the instruction been a Move to d: the value is staged with ptr kept,
\* handle_give opens the port as Direction(d) and advances ptr by one; last
\* stays d in both steps.
C32_WriteThroughLast ==
    [][\A p \in Positions :
          /\ (WritesLast(p) /\ nodes[p].last = "None") =>
                 /\ nodes'[p].give = "None"
                 /\ nodes'[p].give_value = nodes[p].give_value
                 /\ nodes'[p].ptr = At(nodes[p]) + 1
                 /\ nodes'[p].last = "None"
          /\ (WritesLast(p) /\ nodes[p].last # "None") =>
                 /\ SameButPrograms(
                        tick(Retarget(IF phase = "A" /\ idx = 1 THEN [World EXCEPT !.log = {}]
                                      ELSE World,
                                      p, At(nodes[p]), nodes[p].last), p),
                        World')
                 /\ nodes'[p].give = "None"
                 /\ nodes'[p].give_value # None
                 /\ nodes'[p].ptr = At(nodes[p])
                 /\ nodes'[p].last = nodes[p].last
          /\ CommitsLast(p) =>
                 /\ SameButPrograms(
                        handle_give(Retarget(World, p, nodes[p].ptr, nodes[p].last), p),
                        World')
                 /\ nodes'[p].give = nodes[p].last
                 /\ nodes'[p].give_value = nodes[p].give_value
                 /\ nodes'[p].ptr = nodes[p].ptr + 1
                 /\ nodes'[p].last = nodes[p].last]_vars

\* Witness for C32: handle_give has just opened the port of a node whose
\* current write went through Last, in the direction last names.
C32_OfferedThroughLast ==
    /\ phase \in {"B", "C"}
    /\ fatal = ""
    /\ \E p \in Computes :
          /\ nodes[p].ptr > 0
          /\ nodes[p].ptr <= Len(nodes[p].instructions)
          /\ nodes[p].instructions[nodes[p].ptr].op = "Move"
          /\ nodes[p].instructions[nodes[p].ptr].dst = "Last"
          /\ nodes[p].last \in Direction
          /\ nodes[p].give = nodes[p].last
          /\ nodes[p].give_value # None


\* ---------------------------------------------------------------------- C33
\* When the global tick began, the compute node at x offered in direction d
\* and its neighbour there, a compute node with a free port and nothing
\* staged, was at an instruction that reads from the direction of x.
MatchedPair(x, d) ==
    /\ x \in DOMAIN start
    /\ Shift(x, d) \in DOMAIN start
    /\ start[x].kind = "InstructionNode"
    /\ start[x].give = d
    /\ LET r == start[Shift(x, d)]
       IN  /\ r.kind = "InstructionNode"
           /\ r.instructions # <<>>
           /\ r.give = "None"
           /\ r.give_value = None
           /\ Current(r).op \in {"Move", "Add", "Subtract", "JumpRelative"}
           /\ Current(r).src.isReg
           /\ Current(r).src.reg = opposite(d)

\* The neighbour in direction d has taken the value of the node at x in this
\* global tick, and the port of x is free again.
Delivered(x, d) ==
    /\ \E e \in log : e.ev = "take" /\ e.at = x /\ e.dir = d
    /\ nodes[x].give = "None"
    /\ nodes[x].giving_to = "None"
    /\ nodes[x].give_value = None

\* C33: a matched directed pair makes progress.  If a global tick begins with
\* a compute producer offering in direction d and the compute node at d free
\* and at a read from the producer's direction, then when the tick ends the
\* reader has taken the value and the producer's port is None, whatever the
\* other nodes of the grid do.
C33_MatchedPairProgress ==
    TickDone =>
        \A x \in Positions : \A d \in Direction : MatchedPair(x, d) => Delivered(x, d)

\* Witness for C33: a global tick that began with a matched pair next to a
\* third node has ended.
C33_PairServed ==
    /\ TickDone
    /\ \E x \in Positions : \E d \in Direction :
          /\ MatchedPair(x, d)
          /\ Delivered(x, d)
          /\ \E e \in Direction \ {opposite(d)} : Shift(Shift(x, d), e) \in Positions


\* ---------------------------------------------------------------------- C34
\* The nodes whose port is Given.
GivenNodes == {x \in Positions : nodes[x].give = "Given"}

\* C34: Given is transient.  A node is Given only while the third loop is
\* at that node, between its post_handle_give and its post_post_handle_give;
\* so no node is Given when a global tick begins or ends, and no two nodes
\* are Given together.  While a node is Given the only node ticked is the
\* neighbour its giving_to names.
C34_GivenIsTransient ==
    /\ [](\A x \in GivenNodes : phase = "C" /\ given /\ order[idx] = x)
    /\ [][\A x \in GivenNodes : \A q \in Positions :
              TickStep(q) => q = Shift(x, nodes[x].giving_to)]_vars
    /\ [][\A x \in Positions :
              /\ (nodes[x].give # "Given" /\ nodes'[x].give = "Given") =>
                     phase = "C" /\ ~given /\ order[idx] = x
              /\ (nodes[x].give = "Given" /\ fatal' = "" /\ nodes'[x].give # "Given") =>
                     phase = "C" /\ given /\ partner = None /\ order[idx] = x]_vars

\* Witness for C34: an input node is Given and its partner, a compute node,
\* is about to be ticked.
C34_GivenDuringHandoff ==
    /\ BeforeRetick
    /\ nodes[order[idx]].give = "Given"
    /\ nodes[order[idx]].kind \in InputKinds
    /\ partner[1] \in Computes


\* ---------------------------------------------------------------------- C35
\* The neighbours of x that are compute nodes about to read from x.
ReadersOf(x) ==
    {d \in Direction :
        /\ Shift(x, d) \in Computes
        /\ Runs(nodes[Shift(x, d)])
        /\ Current(nodes[Shift(x, d)]).op \in {"Move", "Add", "Subtract", "JumpRelative"}
        /\ Current(nodes[Shift(x, d)]).src.isReg
        /\ Current(nodes[Shift(x, d)]).src.reg = opposite(d)}

\* C35: the first loop alone is order-independent.  From every reachable
\* state between two global ticks, ticking every node once leaves the same
\* node map, input and output for every order in which the nodes are ticked.
C35_FirstLoopOrderIndependent ==
    (AtBoundary /\ fatal = "") => Cardinality(AfterLoopA(Strip(World))) = 1

\* Witness for C35: between two global ticks a port offers Any and two
\* neighbours are about to read from it, so that both register with it in
\* the first loop.
C35_TwoReadersContend ==
    /\ TickDone
    /\ \E x \in Positions : nodes[x].give = "Any" /\ Cardinality(ReadersOf(x)) >= 2


\* ---------------------------------------------------------------------- C36
\* The step takes a value from the node at x.
TakenFromIn(x) == \E e \in Fresh : e.ev = "take" /\ e.at = x

\* The step is the re-tick for the handoff of the input node at x, and the
\* partner takes nothing from x.
IdleHandoff(x) ==
    /\ BeforeRetick
    /\ order[idx] = x
    /\ nodes[x].kind \in InputKinds
    /\ ~TakenFromIn(x)
    /\ fatal' = ""

\* C36: input is consumed only on an actual take.  The input stream and the
\* line buffer of an input node change only in a step in which a reader
\* takes a value from an input node that is Given, and the buffer of the
\* node taken from only.  A handoff whose re-ticked partner takes nothing
\* leaves the input stream and the node alone, and post_post_handle_give
\* then sets the port back to Any with giving_to cleared.
C36_InputConsumedOnTake ==
    [][/\ stdin' # stdin =>
              \E x \in InputNodes : nodes[x].give = "Given" /\ TakenFromIn(x)
       /\ \A x \in Positions :
              /\ nodes'[x].text_buffer # nodes[x].text_buffer =>
                     x \in InputNodes /\ nodes[x].give = "Given" /\ TakenFromIn(x)
              /\ IdleHandoff(x) => stdin' = stdin /\ nodes'[x] = nodes[x]
              /\ (AfterRetick /\ order[idx] = x /\ x \in InputNodes) =>
                     /\ stdin' = stdin
                     /\ nodes'[x] = [nodes[x] EXCEPT !.give = "Any", !.giving_to = "None"]]_vars

\* Witness for C36: the partner of a Given input node has been re-ticked and
\* has taken nothing from it; input is still waiting.
C36_HandoffNotTaken ==
    /\ AfterRetick
    /\ order[idx] \in InputNodes
    /\ nodes[order[idx]].give = "Given"
    /\ ~\E e \in log : e.ev = "take" /\ e.at = order[idx]
    /\ stdin # <<>>


\* ---------------------------------------------------------------------- C37
\* The next step is a tick of the compute node at p, whose last is unset and
\* whose instruction reads the Last register.
ReadsUnsetLast(p) ==
    /\ TickStep(p)
    /\ p \in Computes
    /\ Runs(nodes[p])
    /\ Current(nodes[p]).op \in {"Move", "Add", "Subtract", "JumpRelative"}
    /\ Current(nodes[p]).src.isReg
    /\ Current(nodes[p]).src.reg = "Last"
    /\ nodes[p].last = "None"

\* The world in which the instruction at index i of the node at p has the
\* literal v as its source.
WithLiteral(w, p, i, v) == [w EXCEPT !.nodes[p].instructions[i + 1].src = Num(v)]

\* C37: reading Last before any Any-write.  A compute node whose last is
\* unset and whose instruction has Last as its source does what it would do
\* with the literal 0 as source: it does not block, no port call is made and
\* no other node changes.
C37_UnsetLastReadsZero ==
    [][\A p \in Positions :
          ReadsUnsetLast(p) =>
              /\ SameButPrograms(
                     tick(WithLiteral(IF phase = "A" /\ idx = 1 THEN [World EXCEPT !.log = {}]
                                      ELSE World,
                                      p, At(nodes[p]), 0), p),
                     World')
              /\ Fresh = {}
              /\ \A x \in Positions \ {p} : nodes'[x] = nodes[x]
              /\ Current(nodes[p]).op # "JumpRelative" =>
                     \/ nodes'[p].ptr = At(nodes[p]) + 1
                     \/ nodes'[p].give_value = Some(0)]_vars

\* Witness for C37: a compute node whose last is unset has just added Last
\* to its accumulator and moved on, next to a neighbour that offers to it.
C37_ZeroFromLast ==
    /\ fatal = ""
    /\ \E p \in Computes : \E d \in Direction :
          /\ nodes[p].last = "None"
          /\ nodes[p].ptr > 0
          /\ nodes[p].ptr <= Len(nodes[p].instructions)
          /\ nodes[p].instructions[nodes[p].ptr].op = "Add"
          /\ nodes[p].instructions[nodes[p].ptr].src.isReg
          /\ nodes[p].instructions[nodes[p].ptr].src.reg = "Last"
          /\ p \in DOMAIN start
          /\ At(start[p]) = nodes[p].ptr - 1
          /\ nodes[p].accumulator = start[p].accumulator
          /\ Shift(p, d) \in Positions
          /\ nodes[Shift(p, d)].give = opposite(d)
          /\ nodes[Shift(p, d)].giving_to = "None"


\* ---------------------------------------------------------------------- C38
\* Nothing at position x ever reads from a port: x is outside the grid or
\* holds an input node.
NeverReads(x) == x \notin Positions \/ nodes[x].kind \in InputKinds

\* Nothing at position x ever offers a value: x is outside the grid or holds
\* a console writer.
NeverOffers(x) == x \notin Positions \/ nodes[x].kind \in OutputKinds

\* The compute node at p has committed a write toward a direction in which
\* nothing ever reads.
DeadWrite(p) ==
    /\ phase # "build"
    /\ p \in Computes
    /\ nodes[p].give \in Direction
    /\ NeverReads(Shift(p, nodes[p].give))

\* The compute node at p is at an instruction that reads from a direction in
\* which nothing ever offers.
DeadRead(p) ==
    /\ phase # "build"
    /\ p \in Computes
    /\ Runs(nodes[p])
    /\ Current(nodes[p]).op \in {"Move", "Add", "Subtract", "JumpRelative"}
    /\ Current(nodes[p]).src.isReg
    /\ Current(nodes[p]).src.reg \in Direction
    /\ NeverOffers(Shift(p, Current(nodes[p]).src.reg))

====
